---- MODULE Spec2Model ----
(***************************************************************************)
(* natural-db: tenant-isolated conversational backend.                     *)
(*                                                                         *)
(* Several state machines share this module:                                 *)
(*   SpecResolver, SpecRls                                                 *)
(*                the row-level-security layer of the data store: the      *)
(*                tenant resolver public.current_tenant_id(), the          *)
(*                tenant_isolation policies and the configuration          *)
(*                settings of one pooled physical connection;              *)
(*   SpecHandler  the Deno.serve request handler of the natural-db edge    *)
(*                function, in its three tenant-aware definitions;         *)
(*   SpecScheduler, SpecTools                                              *)
(*                the scheduling helpers, the fee tools and the timers     *)
(*                they register;                                           *)
(*   SpecConnector the automation connector and the tools that use it;     *)
(*   SpecSql      the tools that return rows read through the sandboxed    *)
(*                lane;                                                    *)
(*   SpecConcurrent, SpecManager                                           *)
(*                two requests in flight in one process, and the           *)
(*                connector manager they share;                            *)
(*   SpecFees, SpecConversations, SpecNotifications                        *)
(*                the fee, calendar and notification tools with their      *)
(*                calls succeeding.                                        *)
(***************************************************************************)
EXTENDS Integers, Sequences, FiniteSets, TLC

VARIABLES
    \* ---- data store (SpecResolver, SpecRls) ----
    sessionGuc,   \* session-level value of each configuration setting of the connection
    localGuc,     \* transaction-local override of each setting (UNSET: none)
    inTxn,        \* a request's transaction is open on the connection
    rows,         \* the stored rows of the tenant-scoped tables
    lastResult,   \* outcome of the statement executed by the last step
    \* ---- request handler (SpecHandler) ----
    variant,      \* which definition of the handler is deployed
    pc,           \* position of the handler in the current request
    req,          \* the inbound request
    raw,          \* handler local `raw`
    callbackUrl,  \* handler local `callbackUrl`
    promptFound,  \* an active system prompt was found for (chat, tenant)
    systemPrompts,\* rows of public.system_prompts
    systemPrompt, \* handler local `systemPrompt`
    inflight,     \* the locals of each of two requests in flight at once (SpecConcurrent)
    finalResponse,\* handler local `finalResponse`
    steps,        \* generation steps taken by generateText
    lastText,     \* text of the last generation step
    toolCalled,   \* every generation step so far requested a tool call
    persistStage, \* position inside the store-messages block
    persisted,    \* message rows appended by the current request
    storageFailed,\* a step of the store-messages block failed
    deliveries,   \* calls made to the callback target by the current request
    response,     \* HTTP status returned (0: none yet)
    raisedAt,     \* the steps of the current request at which an exception was raised
    caught,       \* the top-level catch block was entered
    apologyFailed,\* the apology call of the catch block itself failed
    cronJobs,     \* the process-global timer registry (cron.job: name, schedule, payload)
    cronJobs0,    \* the registry as it was when the current request arrived
    \* ---- tool surface (SpecScheduler, SpecTools) ----
    fees,         \* rows of memories.fees
    feeJobs,      \* rows of memories.fee_jobs
    mcpState,     \* the MCPClientManager singleton: "absent", "unavailable", "available"
    toolResult,   \* what the last tool call returned
    calendarEvents \* rows of memories.fee_calendar_events

dbVars == <<sessionGuc, localGuc, inTxn, rows, lastResult>>
hVars == <<variant, systemPrompts, inflight, pc, req, raw, callbackUrl, promptFound, systemPrompt,
           finalResponse, steps,
           lastText, toolCalled, persistStage, persisted, storageFailed,
           deliveries, response, raisedAt, caught, apologyFailed, cronJobs, cronJobs0>>
tVars == <<fees, feeJobs, mcpState, toolResult, calendarEvents>>
vars == <<dbVars, hVars, tVars>>

(***************************************************************************)
(* Bounds of the model.                                                    *)
(***************************************************************************)
MaxRows == 2       \* rows stored at any time across the tenant-scoped tables

(***************************************************************************)
(* Values.                                                                 *)
(***************************************************************************)
Tenants == {"11111111", "22222222"}
Chats == {"shared_chat_123"}
\* Two of the tables that carry the tenant_isolation policy (profiles, chats,
\* chat_users and the memories tables carry the same policy text).
Tables == {"messages", "system_prompts"}

NULLV == "NULL"     \* SQL NULL (also: setting never defined on the connection)
EMPTY == ""         \* the empty string
UNSET == "UNSET"    \* no transaction-local override
ERR == "ERROR"      \* the statement raised an error

T1 == "11111111"    \* smoke test: Test Tenant A
T2 == "22222222"    \* smoke test: Test Tenant B

(***************************************************************************)
(* Configuration settings of the connection.                               *)
(***************************************************************************)
JwtGuc == "request.jwt.claims"               \* the verified token's claims, as JSON
TenantGuc == "request.header.tenant_id"      \* the setting the resolver reads
XHeaderGuc == "request.header.x-tenant-id"   \* where the x-tenant-id header arrives
GucNames == {JwtGuc, TenantGuc, XHeaderGuc}

\* JSON claim objects of a token: with a tenant_id claim, or without one.
ClaimsT1 == "{tenant_id:11111111}"
ClaimsT2 == "{tenant_id:22222222}"
ClaimsNoTenant == "{}"
ClaimsJson == {ClaimsT1, ClaimsT2, ClaimsNoTenant}

\* claims::jsonb ->> 'tenant_id'
JsonGetTenantId(j) ==
    CASE j = ClaimsT1 -> T1
      [] j = ClaimsT2 -> T2
      [] OTHER -> NULLV

NullIf(v, w) == IF v = w THEN NULLV ELSE v

Coalesce(a, b) == IF a # NULLV THEN a ELSE b

\* text::uuid : NULL stays NULL, a UUID-shaped text converts, anything else raises.
CastUuid(v) ==
    IF v = NULLV THEN NULLV
    ELSE IF v \in Tenants THEN v
    ELSE ERR

\* current_setting(name, true): the transaction-local value when one is set,
\* else the session value, else NULL.
current_setting(name) ==
    IF localGuc[name] # UNSET THEN localGuc[name] ELSE sessionGuc[name]

\* A resolver that reads the connection's session value and ignores the request's own.
current_tenant_id_session ==
    CastUuid(Coalesce(JsonGetTenantId(NullIf(sessionGuc[JwtGuc], EMPTY)),
                      sessionGuc[TenantGuc]))

\* A resolver with the precedence reversed: header first, claim second.
current_tenant_id_header_first ==
    CastUuid(Coalesce(NullIf(current_setting(TenantGuc), EMPTY),
                      JsonGetTenantId(NullIf(current_setting(JwtGuc), EMPTY))))

\* public.current_tenant_id()
current_tenant_id ==
    CastUuid(Coalesce(JsonGetTenantId(NullIf(current_setting(JwtGuc), EMPTY)),
                      current_setting(TenantGuc)))

\* A policy that lets every row through.
UsingPolicyOff(r, tid) == TRUE

\* A policy that never checks the new row.
WithCheckPolicyOff(r, tid) == TRUE

\* tenant_isolation ... USING (tenant_id = public.current_tenant_id())
UsingPolicy(r, tid) == r.tenant_id = tid

\* tenant_isolation ... WITH CHECK (tenant_id = public.current_tenant_id())
WithCheckPolicy(r, tid) == r.tenant_id = tid

Row(tbl, t, c) == [tbl |-> tbl, tenant_id |-> t, chat_id |-> c]
AllRows == {Row(tbl, t, c) : tbl \in Tables, t \in Tenants, c \in Chats}

ANY == "ANY"        \* no filter on the column

NoResult ==
    [op |-> "none", tbl |-> "none", resolved |-> NULLV, status |-> "none",
     returned |-> {}, filterTenant |-> ANY, newRows |-> {}]

(***************************************************************************)
(* SpecDb: requests multiplexed on one pooled connection.                  *)
(***************************************************************************)

\* A request arrives on the connection: the gateway opens a transaction and
\* binds the token's claims and the x-tenant-id header to it (transaction-local).
\* claims = UNSET is a direct SQL session, xhdr = UNSET a request without header.
BeginRequest(claims, xhdr) ==
    /\ ~inTxn
    /\ inTxn' = TRUE
    /\ localGuc' = [n \in GucNames |->
                      CASE n = JwtGuc -> claims
                        [] n = XHeaderGuc -> xhdr
                        [] OTHER -> UNSET]
    /\ lastResult' = NoResult
    /\ UNCHANGED <<sessionGuc, rows>>
    /\ UNCHANGED <<hVars, tVars>>

\* The transaction ends. Local overrides are dropped; a setting that was only
\* ever set locally stays defined on the connection, as the empty string.
EndRequest ==
    /\ inTxn
    /\ inTxn' = FALSE
    /\ sessionGuc' = [n \in GucNames |->
                        IF localGuc[n] # UNSET /\ sessionGuc[n] = NULLV
                        THEN EMPTY ELSE sessionGuc[n]]
    /\ localGuc' = [n \in GucNames |-> UNSET]
    /\ lastResult' = NoResult
    /\ UNCHANGED rows
    /\ UNCHANGED <<hVars, tVars>>

\* public.set_config(setting_name, new_value, is_local)
set_config(name, value, is_local) ==
    /\ inTxn
    /\ IF is_local
       THEN /\ localGuc' = [localGuc EXCEPT ![name] = value]
            /\ UNCHANGED sessionGuc
       ELSE /\ sessionGuc' = [sessionGuc EXCEPT ![name] = value]
            /\ localGuc' = [localGuc EXCEPT ![name] = UNSET]
    /\ lastResult' = NoResult
    /\ UNCHANGED <<inTxn, rows>>
    /\ UNCHANGED <<hVars, tVars>>

\* SELECT public.current_tenant_id()
ResolveTenant ==
    /\ inTxn
    /\ LET tid == current_tenant_id IN
       lastResult' = [NoResult EXCEPT !.op = "resolve", !.resolved = tid,
                        !.status = IF tid = ERR THEN "error" ELSE "ok"]
    /\ UNCHANGED <<sessionGuc, localGuc, inTxn, rows>>
    /\ UNCHANGED <<hVars, tVars>>

\* SELECT ... FROM tbl WHERE chat_id = fchat [AND tenant_id = ftenant]
SelectRows(tbl, fchat, ftenant) ==
    /\ inTxn
    /\ LET tid == current_tenant_id
           visible == {r \in rows : r.tbl = tbl /\ UsingPolicy(r, tid)}
           hit == {r \in visible : /\ r.chat_id = fchat
                                   /\ (ftenant = ANY \/ r.tenant_id = ftenant)}
       IN lastResult' =
            IF tid = ERR
            THEN [NoResult EXCEPT !.op = "select", !.tbl = tbl, !.resolved = ERR,
                    !.status = "error", !.filterTenant = ftenant]
            ELSE [NoResult EXCEPT !.op = "select", !.tbl = tbl, !.resolved = tid,
                    !.status = "ok", !.returned = hit, !.filterTenant = ftenant]
    /\ UNCHANGED <<sessionGuc, localGuc, inTxn, rows>>
    /\ UNCHANGED <<hVars, tVars>>

\* INSERT INTO tbl (..., chat_id, tenant_id) VALUES (..., c, t)
InsertRow(tbl, t, c) ==
    /\ inTxn
    /\ LET tid == current_tenant_id
           r == Row(tbl, t, c)
           ok == tid # ERR /\ WithCheckPolicy(r, tid)
       IN /\ ok => (r \notin rows /\ Cardinality(rows) < MaxRows)
          /\ rows' = IF ok THEN rows \cup {r} ELSE rows
          /\ lastResult' = [NoResult EXCEPT !.op = "insert", !.tbl = tbl,
                              !.resolved = tid, !.newRows = {r},
                              !.status = IF ok THEN "ok" ELSE "error"]
    /\ UNCHANGED <<sessionGuc, localGuc, inTxn>>
    /\ UNCHANGED <<hVars, tVars>>

\* UPDATE tbl SET tenant_id = t WHERE chat_id = c [AND tenant_id = ftenant]
UpdateRows(tbl, c, ftenant, t) ==
    /\ inTxn
    /\ LET tid == current_tenant_id
           targets == {r \in rows : /\ r.tbl = tbl
                                    /\ UsingPolicy(r, tid)
                                    /\ r.chat_id = c
                                    /\ (ftenant = ANY \/ r.tenant_id = ftenant)}
           new == {Row(tbl, t, r.chat_id) : r \in targets}
           ok == tid # ERR /\ \A r \in new : WithCheckPolicy(r, tid)
       IN /\ rows' = IF ok THEN (rows \ targets) \cup new ELSE rows
          /\ lastResult' = [NoResult EXCEPT !.op = "update", !.tbl = tbl,
                              !.resolved = tid, !.newRows = new,
                              !.filterTenant = ftenant,
                              !.status = IF ok THEN "ok" ELSE "error"]
    /\ UNCHANGED <<sessionGuc, localGuc, inTxn>>
    /\ UNCHANGED <<hVars, tVars>>


DbInit ==
    /\ sessionGuc = [n \in GucNames |-> NULLV]
    /\ localGuc = [n \in GucNames |-> UNSET]
    /\ inTxn = FALSE
    /\ rows = {}
    /\ lastResult = NoResult

\* The resolver on a pooled connection: requests, settings, resolution.
NextResolver ==
    \/ \E c \in ClaimsJson, h \in Tenants \cup {UNSET} : BeginRequest(c, h)
    \/ EndRequest
    \/ \E v \in Tenants \cup {EMPTY}, l \in BOOLEAN : set_config(TenantGuc, v, l)
    \/ ResolveTenant

\* The policies: requests, transaction-local tenant context, statements.
NextRls ==
    \/ \E c \in ClaimsJson, h \in Tenants \cup {UNSET} : BeginRequest(c, h)
    \/ EndRequest
    \/ \E v \in Tenants \cup {EMPTY} : set_config(TenantGuc, v, TRUE)
    \/ \E tbl \in Tables, c \in Chats, ft \in Tenants \cup {ANY} : SelectRows(tbl, c, ft)
    \/ \E tbl \in Tables, t \in Tenants, c \in Chats : InsertRow(tbl, t, c)
    \/ \E tbl \in Tables, c \in Chats, ft \in Tenants \cup {ANY}, t \in Tenants :
          UpdateRows(tbl, c, ft, t)

NextDb == NextResolver \/ NextRls

\* The tenant claim of the token bound to the open transaction (NULL: none).
ClaimTenant == JsonGetTenantId(NullIf(current_setting(JwtGuc), EMPTY))

(***************************************************************************)
(* C1  A read evaluated for tenant T returns only rows whose tenant_id is  *)
(* T, whatever other tenants stored under the same conversation id; a read *)
(* that filters on another tenant's id returns no row.                     *)
(***************************************************************************)
C1_ReadIsolation ==
    lastResult.op = "select" =>
        /\ \A r \in lastResult.returned : r.tenant_id = lastResult.resolved
        /\ (lastResult.filterTenant \in Tenants
              /\ lastResult.filterTenant # lastResult.resolved)
           => lastResult.returned = {}

C1_Witness ==
    /\ lastResult.op = "select"
    /\ lastResult.tbl = "messages"
    /\ lastResult.resolved = T1
    /\ lastResult.filterTenant = ANY
    /\ Row("messages", T2, "shared_chat_123") \in rows
    /\ lastResult.returned = {Row("messages", T1, "shared_chat_123")}

C3_ClaimBeforeHeader ==
    lastResult.op # "none" =>
        /\ ClaimTenant \in Tenants => lastResult.resolved = ClaimTenant
        /\ (lastResult.resolved \in Tenants /\ lastResult.resolved # ClaimTenant)
           => (ClaimTenant = NULLV /\ lastResult.resolved = current_setting(TenantGuc))

C3_Witness ==
    /\ lastResult.op = "resolve"
    /\ localGuc[JwtGuc] = ClaimsT1
    /\ localGuc[XHeaderGuc] = T2
    /\ current_setting(TenantGuc) = T2
    /\ lastResult.resolved = T1

(***************************************************************************)
(* C4  A request without tenant claim that sends x-tenant-id = T is        *)
(* resolved to T.                                                          *)
(***************************************************************************)
C4_XTenantHeaderResolves ==
    (/\ lastResult.op = "resolve"
     /\ ClaimTenant = NULLV
     /\ localGuc[XHeaderGuc] \in Tenants)
    => lastResult.resolved = localGuc[XHeaderGuc]

(***************************************************************************)
(* C5  Resolution is request-local: a request whose token claims tenant T  *)
(* and that sends no tenant header is resolved to T, whatever earlier      *)
(* requests left in the connection's settings.                             *)
(***************************************************************************)
C5_ResolutionIsRequestLocal ==
    (/\ lastResult.op # "none"
     /\ localGuc[JwtGuc] \in {ClaimsT1, ClaimsT2}
     /\ localGuc[XHeaderGuc] = UNSET)
    => lastResult.resolved = JsonGetTenantId(localGuc[JwtGuc])

C5_Witness ==
    /\ lastResult.op = "resolve"
    /\ sessionGuc[TenantGuc] = T2
    /\ localGuc[JwtGuc] = ClaimsT1
    /\ localGuc[XHeaderGuc] = UNSET
    /\ localGuc[TenantGuc] = UNSET
    /\ lastResult.resolved = T1


(***************************************************************************)
(* The scheduler: job names, timer payloads and the pg_cron registry.      *)
(* Strings that the code cuts or rewrites are sequences of characters.     *)
(***************************************************************************)
Letters == {"a", "b", "c", "d", "e", "f", "g", "h", "i", "j", "k", "l", "m",
            "n", "o", "p", "q", "r", "s", "t", "u", "v", "w", "x", "y", "z",
            "A", "B", "C", "D", "E", "F", "G", "H", "I", "J", "K", "L", "M",
            "N", "O", "P", "Q", "R", "S", "T", "U", "V", "W", "X", "Y", "Z"}
Digits == {"0", "1", "2", "3", "4", "5", "6", "7", "8", "9"}

\* [a-zA-Z0-9_]
WordChars == Letters \cup Digits \cup {"_"}

JobNameLimit == 50

\* A Telegram-style chat id and a chat id of 46 characters.
ChatShort == <<"-", "1", "0", "0", "1">>
ChatLong == [i \in 1..46 |-> "7"]
ChatIds == {ChatShort, ChatLong}

\* gen_random_uuid(): 36 characters, hyphens at 9, 14, 19, 24.
Uuid(c) == [i \in 1..36 |-> IF i \in {9, 14, 19, 24} THEN "-" ELSE c]
FeeA == Uuid("a")
FeeB == Uuid("b")
FeeIds == {FeeA, FeeB}

DueDays == {1, 15}

\* .replace(/[^a-zA-Z0-9_]/g, '_')
ReplaceNonWord(str) == [i \in 1..Len(str) |-> IF str[i] \in WordChars THEN str[i] ELSE "_"]

\* .substring(0, n)
Substring0(str, n) == SubSeq(str, 1, IF Len(str) < n THEN Len(str) ELSE n)

\* `fee_${chatId}_${feeId}`.replace(/[^a-zA-Z0-9_]/g, '_').substring(0, 50)
JobName(chatId, feeId) ==
    Substring0(ReplaceNonWord(<<"f", "e", "e", "_">> \o chatId \o <<"_">> \o feeId),
               JobNameLimit)

\* JOB_NAME_REGEX = /^[a-zA-Z0-9_]+$/
isValidJobName(name) == Len(name) > 0 /\ \A i \in 1..Len(name) : name[i] \in WordChars

\* `0 9 ${due_day} * *`
CronExpression(dueDay) == <<0, 9, dueDay>>

\* A payload that names a fixed tenant.
CronPayloadFixedTenant(tenantId, chatId, feeId) ==
    [userPrompt |-> "Send a fee reminder", id |-> chatId, userId |-> "system",
     feeId |-> feeId, tenantId |-> T1, incomingMessageRole |-> "system_routine_task",
     callbackUrl |-> "telegram-outgoing"]

\* cronPayload of fees_create
CronPayload(tenantId, chatId, feeId) ==
    [userPrompt |-> "Send a fee reminder", id |-> chatId, userId |-> "system",
     feeId |-> feeId, tenantId |-> tenantId, incomingMessageRole |-> "system_routine_task",
     callbackUrl |-> "telegram-outgoing"]

\* The registry entry that fees_create asks for.
FeeJob(tenantId, chatId, feeId, dueDay) ==
    [name |-> JobName(chatId, feeId),
     schedule |-> CronExpression(dueDay),
     payload |-> CronPayload(tenantId, chatId, feeId)]

\* A registry that adds a job whatever its name.
cron_schedule_add(reg, job) == reg \cup {job}

\* cron.schedule(job_name, schedule, command): a named job replaces the job of that name.
cron_schedule(reg, job) == {j \in reg : j.name # job.name} \cup {job}

\* cron.unschedule(job_name)
cron_unschedule(reg, name) == {j \in reg : j.name # name}

\* cron.unschedule raises an error for a name that is not in cron.job.
cron_unschedule_fails(reg, name) == \A j \in reg : j.name # name


(***************************************************************************)
(* SpecHandler: the Deno.serve handler, one request at a time.             *)
(***************************************************************************)
V1 == "index.ts"        \* index.ts, first definition (anon client, guarded storage)
V2 == "index.ts#2"      \* index.ts, second definition (tools passed, unguarded storage)
V6 == "part_006"        \* first definition with service-role message insertion
Variants == {V1, V2, V6}

StepCeiling == 1        \* generateText is called without stopWhen: one step

REPLY == "generated reply"
TOOLTEXT == ""                                          \* text of a tool-call-only step
ENGINE_ERROR == "Sorry, I encountered an error processing your request."
APOLOGY == "Sorry, an internal error occurred."
NOTEXT == "none"

UserIds == {"user_1", "user_2"}

NoReq == [method |-> "none", body |-> "none", tenantId |-> "none",
          restValid |-> FALSE, role |-> "none", id |-> <<>>, userId |-> "none",
          feeId |-> <<>>]

Requests ==
    [method : {"POST", "GET"},
     body : {"json", "unparseable"},
     tenantId : Tenants \cup {"missing", "not-a-uuid"},
     restValid : BOOLEAN,
     role : {"user", "system_routine_task"},
     id : ChatIds,
     userId : UserIds,
     feeId : {<<>>}]

\* IncomingPayloadSchema.safeParse(raw).success
SchemaAccepts(r) == r.tenantId \in Tenants /\ r.restValid

\* IncomingPayloadSchema
IncomingPayloadSchema(r) == SchemaAccepts(r)

\* The body posted to the callback target: finalResponse, id, userId, metadata.tenantId
Payload(text) ==
    [text |-> text, id |-> req.id, userId |-> req.userId, tenantId |-> req.tenantId]

MessageRow(role, content) ==
    [role |-> role, content |-> content, chat_id |-> req.id,
     tenant_id |-> req.tenantId]

\* A row of public.system_prompts.
Prompt(tenantId, chatId) ==
    [tenant |-> tenantId, chat |-> chatId, active |-> TRUE, content |-> "stored"]

\* The built-in prompt of the handler.
DefaultPrompt == [tenant |-> "none", chat |-> <<>>, active |-> TRUE, content |-> "default"]

\* No prompt chosen yet.
NoPrompt == [tenant |-> "none", chat |-> <<>>, active |-> FALSE, content |-> "none"]

\* The tables the handler is run against: none stored; one stored by T2 for a
\* conversation id; one stored by each tenant for that same conversation id.
PromptTables == {{}, {Prompt(T2, ChatShort)}, {Prompt(T1, ChatShort), Prompt(T2, ChatShort)}}

\* The query without its tenant filter.
PromptQueryByChat(chatId, tenantId) ==
    {p \in systemPrompts : p.chat = chatId /\ p.active}

\* .from("system_prompts").eq("chat_id", chatId).eq("tenant_id", tenantId)
\*    .eq("is_active", true)
PromptQuery(chatId, tenantId) ==
    {p \in systemPrompts : p.chat = chatId /\ p.tenant = tenantId /\ p.active}

\* The requests that can be in flight at once.
Slots == {1, 2}

NoPayload == [id |-> <<>>, tenantId |-> "none", sources |-> {}]

\* The locals of one invocation of the Deno.serve callback.
IdleSlot ==
    [pc |-> "idle", tenant |-> "none", chat |-> <<>>, held |-> FALSE,
     observed |-> "none", context |-> {}, prompt |-> NoPrompt,
     persisted |-> {}, delivered |-> NoPayload]

HInit ==
    /\ pc = "idle"
    /\ req = NoReq
    /\ raw = NULLV
    /\ callbackUrl = NULLV
    /\ promptFound = FALSE
    /\ systemPrompt = NoPrompt
    /\ finalResponse = NOTEXT
    /\ steps = 0
    /\ lastText = NOTEXT
    /\ toolCalled = FALSE
    /\ persistStage = "none"
    /\ persisted = <<>>
    /\ storageFailed = FALSE
    /\ deliveries = <<>>
    /\ response = 0
    /\ raisedAt = {}
    /\ caught = FALSE
    /\ apologyFailed = FALSE
    /\ cronJobs = {}
    /\ cronJobs0 = {}
    /\ inflight = [r \in Slots |-> IdleSlot]

NoCtx == [tenant |-> "none", chat |-> <<>>, fee |-> <<>>]

NoToolResult == [tool |-> "none", status |-> "none", says |-> {}, ctx |-> NoCtx]

\* What a tool returned: an { error } object ("error") or a message ("ok"), with
\* the facts the message states; ctx is the tenant, chat and fee it acted for.
ToolResultFor(tool, status, says, ctx) ==
    [tool |-> tool, status |-> status, says |-> says, ctx |-> ctx]

ToolResult(tool, status, says) == ToolResultFor(tool, status, says, NoCtx)

\* An exception raised at step `site` leaves the try block for the top-level catch.
TopLevelCatch(sent, site) ==
    /\ deliveries' = sent
    /\ response' = response
    /\ raisedAt' = raisedAt \cup {site}
    /\ caught' = TRUE
    /\ pc' = "catch"

\* An exception raised at step `site` is handled by that step's own catch.
InnerCatch(site) ==
    /\ raisedAt' = raisedAt \cup {site}
    /\ caught' = caught

NoException == UNCHANGED <<raisedAt, caught>>

\* A catch block that sends the apology whatever was parsed.
ApologyGuardAlways == TRUE

\* callbackUrl && raw && typeof raw === 'object' && raw !== null
ApologyGuard == callbackUrl # NULLV /\ raw = "object"

\* The top-level catch block: one apology to the callback target when the target
\* and the raw body are known (a failure of that call is swallowed), then a 500.
CatchBlock(outcome) ==
    /\ pc = "catch"
    /\ IF ApologyGuard
       THEN /\ deliveries' = Append(deliveries, Payload(APOLOGY))
            /\ apologyFailed' = (outcome = "throw")
       ELSE /\ outcome = "ok"
            /\ UNCHANGED <<deliveries, apologyFailed>>
    /\ response' = 500
    /\ pc' = "done"
    /\ UNCHANGED <<variant, systemPrompts, inflight, req, raw, callbackUrl, promptFound, systemPrompt,
                   finalResponse, steps,
                   lastText, toolCalled, persistStage, persisted, storageFailed,
                   raisedAt, caught, cronJobs, cronJobs0>>
    /\ UNCHANGED <<dbVars, tVars>>

\* A request arrives.
Receive(r) ==
    /\ pc = "idle"
    /\ pc' = "parse"
    /\ req' = r
    /\ cronJobs0' = cronJobs
    /\ UNCHANGED <<variant, systemPrompts, inflight, raw, callbackUrl, promptFound, systemPrompt,
                   finalResponse, steps, lastText,
                   toolCalled, persistStage, persisted, storageFailed, deliveries,
                   response, raisedAt, caught, apologyFailed, cronJobs>>
    /\ UNCHANGED <<dbVars, tVars>>

\* Method check, req.json(), schema validation, early tenant validation.
ParseRequest ==
    /\ pc = "parse"
    /\ IF req.method # "POST"
       THEN /\ response' = 405 /\ pc' = "done"
            /\ NoException
            /\ UNCHANGED <<raw, callbackUrl, deliveries>>
       ELSE IF req.body = "unparseable"
       THEN \* req.json() throws: raw is still null, callbackUrl undefined
            /\ TopLevelCatch(deliveries, "json")
            /\ UNCHANGED <<raw, callbackUrl>>
       ELSE IF ~IncomingPayloadSchema(req)
       THEN /\ raw' = "object"
            /\ response' = 400 /\ pc' = "done"
            /\ NoException
            /\ UNCHANGED <<callbackUrl, deliveries>>
       ELSE /\ raw' = "object"
            /\ callbackUrl' = "callback"
            /\ pc' = "load"
            /\ NoException
            /\ UNCHANGED <<response, deliveries>>
    /\ UNCHANGED <<variant, systemPrompts, inflight, req, promptFound, systemPrompt,
                   finalResponse, steps, lastText, toolCalled,
                   persistStage, persisted, storageFailed, apologyFailed, cronJobs,
                   cronJobs0>>
    /\ UNCHANGED <<dbVars, tVars>>

\* loadRecentAndRelevantMessages(...)
LoadContext(outcome) ==
    /\ pc = "load"
    /\ IF outcome = "ok"
       THEN /\ pc' = IF variant = V6 THEN "mcp" ELSE "prompt"
            /\ NoException
            /\ UNCHANGED <<deliveries, response>>
       ELSE IF variant \in {V1, V6}
       THEN \* "Return early with simplified response if messages fail to load"
            /\ response' = 500 /\ pc' = "done"
            /\ InnerCatch("load")
            /\ UNCHANGED deliveries
       ELSE TopLevelCatch(deliveries, "load")
    /\ UNCHANGED <<variant, systemPrompts, inflight, req, raw, callbackUrl, promptFound, systemPrompt,
                   finalResponse, steps,
                   lastText, toolCalled, persistStage, persisted, storageFailed,
                   apologyFailed, cronJobs, cronJobs0>>
    /\ UNCHANGED <<dbVars, tVars>>

\* The system_prompts lookup and the choice of the system prompt. In the first
\* definition the default prompt reads mcpClient before its declaration.
PromptLookup(found) ==
    /\ pc = "prompt"
    /\ found = (PromptQuery(req.id, req.tenantId) # {})
    /\ promptFound' = found
    /\ IF variant = V1 /\ ~found
       THEN /\ TopLevelCatch(deliveries, "prompt")
            /\ UNCHANGED systemPrompt
       ELSE /\ systemPrompt' = IF found
                               THEN CHOOSE p \in PromptQuery(req.id, req.tenantId) : TRUE
                               ELSE DefaultPrompt
            /\ pc' = IF variant = V1 THEN "mcp" ELSE "generate"
            /\ NoException
            /\ UNCHANGED <<deliveries, response>>
    /\ UNCHANGED <<variant, systemPrompts, inflight, req, raw, callbackUrl, finalResponse, steps, lastText,
                   toolCalled, persistStage, persisted, storageFailed, apologyFailed,
                   cronJobs, cronJobs0>>
    /\ UNCHANGED <<dbVars, tVars>>

\* MCPClientManager.getInstance() / initialize(): a failure is caught and logged.
McpInit(outcome) ==
    /\ pc = "mcp"
    /\ outcome \in {"ok", "throw"}
    /\ pc' = IF variant = V6 THEN "prompt" ELSE "generate"
    /\ IF outcome = "throw" THEN InnerCatch("mcp") ELSE NoException
    /\ UNCHANGED <<variant, systemPrompts, inflight, req, raw, callbackUrl, promptFound, systemPrompt,
                   finalResponse, steps,
                   lastText, toolCalled, persistStage, persisted, storageFailed,
                   deliveries, response, apologyFailed, cronJobs, cronJobs0>>
    /\ UNCHANGED <<dbVars, tVars>>

\* The effect on the registry of a tool the engine invoked for the current
\* request: scheduleCron / unscheduleCron with the job of one of the chat's fees.
ApplyTool(kind, feeId) ==
    CASE kind = "schedule" ->
             cron_schedule(cronJobs, FeeJob(req.tenantId, req.id, feeId, 1))
      [] kind = "unschedule" -> cron_unschedule(cronJobs, JobName(req.id, feeId))
      [] OTHER -> cronJobs

\* generateText's loop condition after a step that called a tool.
ContinueAfterToolCall(n) == n < StepCeiling

\* One generation step of generateText.
Generate(outcome, kind, job) ==
    /\ pc = "generate"
    /\ IF variant \in {V1, V6}
       THEN \* called without tools; a failure becomes an error reply
            /\ outcome \in {"text", "throw"}
            /\ steps' = steps + 1
            /\ lastText' = IF outcome = "text" THEN REPLY ELSE lastText
            /\ finalResponse' = IF outcome = "text" THEN REPLY ELSE ENGINE_ERROR
            /\ pc' = "persist"
            /\ persistStage' = "embed_user"
            /\ IF outcome = "throw" THEN InnerCatch("generate") ELSE NoException
            /\ UNCHANGED <<toolCalled, cronJobs, deliveries, response>>
       ELSE CASE outcome = "text" ->
                   /\ steps' = steps + 1
                   /\ lastText' = REPLY
                   /\ toolCalled' = FALSE
                   /\ finalResponse' = REPLY
                   /\ pc' = "persist"
                   /\ persistStage' = "embed_user"
                   /\ NoException
                   /\ UNCHANGED <<cronJobs, deliveries, response>>
              [] outcome = "tool" ->
                   /\ steps' = steps + 1
                   /\ lastText' = TOOLTEXT
                   /\ toolCalled' = (steps = 0 \/ toolCalled)
                   /\ cronJobs' = ApplyTool(kind, job)
                   /\ IF ContinueAfterToolCall(steps + 1)
                      THEN UNCHANGED <<pc, persistStage, finalResponse>>
                      ELSE /\ finalResponse' = TOOLTEXT
                           /\ pc' = "persist"
                           /\ persistStage' = "embed_user"
                   /\ NoException
                   /\ UNCHANGED <<deliveries, response>>
              [] OTHER ->
                   /\ TopLevelCatch(deliveries, "generate")
                   /\ UNCHANGED <<steps, lastText, toolCalled, finalResponse,
                                  persistStage, cronJobs>>
    /\ UNCHANGED <<variant, systemPrompts, inflight, req, raw, callbackUrl, promptFound, systemPrompt,
                   persisted, storageFailed,
                   apologyFailed, cronJobs0>>
    /\ UNCHANGED <<dbVars, tVars>>

\* The tools createTools returns.
ToolNames == {"execute_sql", "get_distinct_column_values", "fees_create",
              "fees_list_active", "fees_cancel", "docs_store", "docs_parse",
              "docs_email_summary", "notifications_set_email_prefs",
              "notifications_send_email", "calendar_create_event_for_fee",
              "calendar_cancel_event_for_fee"}

\* The execute body of the tool is inside try { ... } catch { return { error } }.
HasTryCatch(tool) == tool \notin {"execute_sql", "get_distinct_column_values"}

\* What execute yields when a call it awaits fails: "error" is a returned
\* { error } (result.error, success: false), "throw" a rejected promise.
ExecuteOutcome(tool, failure) ==
    IF failure = "throw" /\ ~HasTryCatch(tool) THEN "throws" ELSE "error_value"

\* A generation step of the second definition in which the engine calls `tool`
\* and a call the tool awaits fails with `failure`. generateText rejects when
\* execute throws; otherwise the { error } value ends the step like any result.
ToolFailure(tool, failure) ==
    /\ pc = "generate"
    /\ variant = V2
    /\ IF ExecuteOutcome(tool, failure) = "throws"
       THEN /\ TopLevelCatch(deliveries, "tool")
            /\ UNCHANGED <<steps, lastText, toolCalled, finalResponse, persistStage>>
       ELSE /\ steps' = steps + 1
            /\ lastText' = TOOLTEXT
            /\ toolCalled' = (steps = 0 \/ toolCalled)
            /\ IF ContinueAfterToolCall(steps + 1)
               THEN UNCHANGED <<pc, persistStage, finalResponse>>
               ELSE /\ finalResponse' = TOOLTEXT
                    /\ pc' = "persist"
                    /\ persistStage' = "embed_user"
            /\ NoException
            /\ UNCHANGED <<deliveries, response>>
    /\ UNCHANGED <<variant, systemPrompts, inflight, req, raw, callbackUrl, promptFound, systemPrompt,
                   persisted, storageFailed,
                   apologyFailed, cronJobs, cronJobs0>>
    /\ UNCHANGED <<dbVars, tVars>>

NextStage(st) ==
    CASE st = "embed_user" -> "insert_user"
      [] st = "insert_user" -> "embed_assistant"
      [] st = "embed_assistant" -> "insert_assistant"
      [] OTHER -> "stored"

\* One awaited call of the store-messages block: generateEmbedding or insertMessage.
\* outcome: "ok", "error" (insertMessage returned an error), "throw".
Persist(outcome) ==
    /\ pc = "persist"
    /\ persistStage \in {"embed_user", "insert_user", "embed_assistant", "insert_assistant"}
    /\ outcome = "error" => persistStage \in {"insert_user", "insert_assistant"}
    /\ IF outcome = "throw"
       THEN /\ storageFailed' = TRUE
            /\ UNCHANGED <<persisted, persistStage>>
            /\ IF variant \in {V1, V6}
               THEN \* "Continue execution even if storage fails"
                    /\ pc' = "deliver"
                    /\ InnerCatch("storage")
                    /\ UNCHANGED <<deliveries, response>>
               ELSE TopLevelCatch(deliveries, "storage")
       ELSE /\ persisted' =
                 IF outcome = "ok" /\ persistStage = "insert_user"
                 THEN Append(persisted, MessageRow(req.role, "user prompt"))
                 ELSE IF outcome = "ok" /\ persistStage = "insert_assistant"
                 THEN Append(persisted, MessageRow("assistant", finalResponse))
                 ELSE persisted
            /\ storageFailed' = (storageFailed \/ outcome = "error")
            /\ persistStage' = NextStage(persistStage)
            /\ pc' = IF persistStage = "insert_assistant" THEN "deliver" ELSE "persist"
            /\ NoException
            /\ UNCHANGED <<deliveries, response>>
    /\ UNCHANGED <<variant, systemPrompts, inflight, req, raw, callbackUrl, promptFound, systemPrompt,
                   finalResponse, steps,
                   lastText, toolCalled, apologyFailed, cronJobs, cronJobs0>>
    /\ UNCHANGED <<dbVars, tVars>>

\* fetch(callbackUrl, ...) with the final response, then the 200 response.
Deliver(outcome) ==
    /\ pc = "deliver"
    /\ IF outcome = "ok"
       THEN /\ deliveries' = Append(deliveries, Payload(finalResponse))
            /\ response' = 200
            /\ pc' = "done"
            /\ NoException
       ELSE TopLevelCatch(Append(deliveries, Payload(finalResponse)), "deliver")
    /\ UNCHANGED <<variant, systemPrompts, inflight, req, raw, callbackUrl, promptFound, systemPrompt,
                   finalResponse, steps,
                   lastText, toolCalled, persistStage, persisted, storageFailed,
                   apologyFailed, cronJobs, cronJobs0>>
    /\ UNCHANGED <<dbVars, tVars>>

\* The response has been returned; the next invocation starts with fresh locals.
Finish ==
    /\ pc = "done"
    /\ pc' = "idle"
    /\ req' = NoReq
    /\ raw' = NULLV
    /\ callbackUrl' = NULLV
    /\ promptFound' = FALSE
    /\ systemPrompt' = NoPrompt
    /\ finalResponse' = NOTEXT
    /\ steps' = 0
    /\ lastText' = NOTEXT
    /\ toolCalled' = FALSE
    /\ persistStage' = "none"
    /\ persisted' = <<>>
    /\ storageFailed' = FALSE
    /\ deliveries' = <<>>
    /\ response' = 0
    /\ raisedAt' = {}
    /\ caught' = FALSE
    /\ apologyFailed' = FALSE
    /\ cronJobs0' = cronJobs
    /\ UNCHANGED <<variant, systemPrompts, inflight, cronJobs>>
    /\ UNCHANGED <<dbVars, tVars>>

\* The Supabase client that insertMessage is given: part_006 passes its
\* serviceRoleClient, both definitions of index.ts pass the tenant client.
PersistClient == IF variant = V6 THEN "service_role" ELSE "anon"

\* The authority lane of a call: executePrivilegedSQL and the service-role client
\* are the privileged lane; executeRestrictedSQL and the tenant client the sandboxed.
LaneOf(call) ==
    CASE call \in {"scheduleCron", "unscheduleCron"} -> "privileged"
      [] call = "insertMessage" ->
            IF PersistClient = "service_role" THEN "privileged" ELSE "sandboxed"
      [] OTHER -> "sandboxed"

\* The data-store calls the current request has made so far.
CallsMade ==
    (IF promptFound THEN {"system_prompts"} ELSE {})
    \cup (IF Len(persisted) > 0 THEN {"insertMessage"} ELSE {})
    \cup (IF toolResult.tool # "none" THEN {toolResult.tool} ELSE {})

NextHandler ==
    \/ \E r \in Requests : Receive(r)
    \/ ParseRequest
    \/ \E o \in {"ok", "throw"} : LoadContext(o)
    \/ \E f \in BOOLEAN : PromptLookup(f)
    \/ \E o \in {"ok", "throw"} : McpInit(o)
    \/ \E o \in {"text", "tool", "throw"}, k \in {"none", "schedule", "unschedule"},
          j \in {FeeA} : Generate(o, k, j)
    \/ \E t \in ToolNames, f \in {"error", "throw"} : ToolFailure(t, f)
    \/ \E o \in {"ok", "error", "throw"} : Persist(o)
    \/ \E o \in {"ok", "throw"} : Deliver(o)
    \/ \E o \in {"ok", "throw"} : CatchBlock(o)
    \/ Finish

(***************************************************************************)
(* SpecScheduler: the scheduling helpers, called with the job names,       *)
(* schedules and payloads that fees_create derives.                        *)
(***************************************************************************)
\* The registry holds a job registered for the same tenant, chat and fee.
RegisteredFor(payload) ==
    \E j \in cronJobs : /\ j.payload.tenantId = payload.tenantId
                        /\ j.payload.id = payload.id
                        /\ j.payload.feeId = payload.feeId

\* scheduleCron(jobName, cronExpression, payload, supabaseUrl); outcome is that of
\* executePrivilegedSQL.
scheduleCron(jobName, cronExpression, payload, outcome) ==
    /\ pc = "idle"
    /\ IF ~isValidJobName(jobName)
       THEN /\ toolResult' = ToolResult("scheduleCron", "error", {"invalid_job_name"})
            /\ UNCHANGED cronJobs
       ELSE IF outcome = "error"
       THEN /\ toolResult' = ToolResult("scheduleCron", "error", {"schedule_failed"})
            /\ UNCHANGED cronJobs
       ELSE /\ cronJobs' = cron_schedule(cronJobs, [name |-> jobName,
                                                     schedule |-> cronExpression,
                                                     payload |-> payload])
            /\ toolResult' = ToolResult("scheduleCron", "ok",
                                        IF RegisteredFor(payload)
                                        THEN {"registered_again"} ELSE {})
    /\ UNCHANGED <<fees, feeJobs, mcpState, calendarEvents>>
    /\ UNCHANGED <<variant, systemPrompts, inflight, pc, req, raw, callbackUrl, promptFound, systemPrompt,
                   finalResponse, steps,
                   lastText, toolCalled, persistStage, persisted, storageFailed,
                   deliveries, response, raisedAt, caught, apologyFailed, cronJobs0>>
    /\ UNCHANGED dbVars

\* unscheduleCron(jobName)
unscheduleCron(jobName, outcome) ==
    /\ pc = "idle"
    /\ IF ~isValidJobName(jobName)
       THEN /\ toolResult' = ToolResult("unscheduleCron", "error", {"invalid_job_name"})
            /\ UNCHANGED cronJobs
       ELSE IF outcome = "error" \/ cron_unschedule_fails(cronJobs, jobName)
       THEN /\ toolResult' = ToolResult("unscheduleCron", "error", {"unschedule_failed"})
            /\ UNCHANGED cronJobs
       ELSE /\ cronJobs' = cron_unschedule(cronJobs, jobName)
            /\ toolResult' = ToolResult("unscheduleCron", "ok", {})
    /\ UNCHANGED <<fees, feeJobs, mcpState, calendarEvents>>
    /\ UNCHANGED <<variant, systemPrompts, inflight, pc, req, raw, callbackUrl, promptFound, systemPrompt,
                   finalResponse, steps,
                   lastText, toolCalled, persistStage, persisted, storageFailed,
                   deliveries, response, raisedAt, caught, apologyFailed, cronJobs0>>
    /\ UNCHANGED dbVars

\* Names the helpers are called with: those fees_create derives, and a malformed one.
SchedulerNames == {JobName(c, f) : c \in ChatIds, f \in FeeIds} \cup {<<"b", "a", "d", "-">>}

NextScheduler ==
    \/ \E t \in Tenants, c \in ChatIds, f \in FeeIds, d \in DueDays, o \in {"ok", "error"} :
          scheduleCron(JobName(c, f), CronExpression(d), CronPayload(t, c, f), o)
    \/ \E t \in Tenants, d \in DueDays :
          scheduleCron(<<"b", "a", "d", "-">>, CronExpression(d),
                       CronPayload(t, ChatShort, FeeA), "ok")
    \/ \E n \in SchedulerNames, o \in {"ok", "error"} : unscheduleCron(n, o)

(***************************************************************************)
(* SpecTools: the fee tools of createTools(supabase, chatId, tenantId,     *)
(* mcpClient), the timer runtime that fires registered jobs, and the       *)
(* handler that serves the fired requests.                                 *)
(***************************************************************************)
Fee(id, tenantId, chatId, dueDay, active) ==
    [id |-> id, tenant |-> tenantId, chat |-> chatId, due_day |-> dueDay,
     is_active |-> active]

\* No row: the SELECT of fees_cancel found nothing.
NoFee == Fee(<<>>, "none", <<>>, 0, FALSE)

FeeJobRow(tenantId, feeId, name) == [tenant |-> tenantId, fee |-> feeId, name |-> name]

Ctx(tenantId, chatId, feeId) == [tenant |-> tenantId, chat |-> chatId, fee |-> feeId]

\* A row of memories.fee_calendar_events; external is "mcp" for an event id the
\* connector returned and "fallback" for a fallback_event_... id.
CalendarEvent(tenantId, feeId, external) ==
    [tenant |-> tenantId, fee |-> feeId, external |-> external]

\* No row: the SELECT of calendar_cancel_event_for_fee found nothing.
NoEvent == CalendarEvent("none", <<>>, "none")

isAvailableAlways == TRUE

\* mcpClient && mcpClient.isAvailable(): the manager has a client and it is connected.
isAvailable == mcpState = "available"

handlerFrame ==
    UNCHANGED <<variant, systemPrompts, inflight, pc, req, raw, callbackUrl, promptFound, systemPrompt,
                finalResponse, steps,
                lastText, toolCalled, persistStage, persisted, storageFailed,
                deliveries, response, raisedAt, caught, apologyFailed, cronJobs0>>

\* The confirmation message of fees_create: what it states about email and calendar.
ConfirmationSays(emailSent, calendarCreated) ==
    {"created"} \cup (IF emailSent THEN {"email_sent"} ELSE {})
                \cup (IF calendarCreated THEN {"calendar_created"} ELSE {})

\* fees_create.execute for the tool context (tenantId, chatId).
\*   feeId      the id the INSERT ... RETURNING yields (gen_random_uuid)
\*   oIns       outcome of the INSERT INTO fees
\*   oSched     outcome of executePrivilegedSQL inside scheduleCron
\*   oJob       outcome of the INSERT INTO fee_jobs
\*   emailOn    notification_settings has an address with email_enabled
\*   emailOk, calOk   what the connector answers when it is contacted
\*   calId      the calendar answer carries an eventId (the second definition of
\*              createCalendarEvent returns none when the reply has no event_id)
fees_create(tenantId, chatId, dueDay, feeId, oIns, oSched, oJob, emailOn, emailOk, calOk, calId) ==
    LET jobName == JobName(chatId, feeId)
        ctx == Ctx(tenantId, chatId, feeId)
        contact == emailOn /\ isAvailable
        emailSent == contact /\ emailOk
        calendarCreated == emailSent /\ calOk /\ calId
        nameTaken == \E r \in feeJobs : r.name = jobName
        stored == oIns = "ok" /\ isValidJobName(jobName) /\ oSched = "ok" /\ oJob # "throw"
    IN
    /\ pc = "idle"
    /\ \A f \in fees : f.id # feeId
    /\ oJob = "ok" => ~nameTaken
    /\ emailOk => contact
    /\ calOk => emailSent
    /\ calId => calOk
    /\ IF oIns # "ok"
       THEN /\ toolResult' = ToolResultFor("fees_create", "error", {"create_failed"}, ctx)
            /\ UNCHANGED <<fees, feeJobs, cronJobs>>
       ELSE /\ fees' = fees \cup {Fee(feeId, tenantId, chatId, dueDay, TRUE)}
            /\ IF ~isValidJobName(jobName) \/ oSched # "ok"
               THEN /\ toolResult' = ToolResultFor("fees_create", "error",
                                                   {"scheduling_failed"}, ctx)
                    /\ UNCHANGED <<feeJobs, cronJobs>>
               ELSE /\ cronJobs' = cron_schedule(cronJobs,
                                                 FeeJob(tenantId, chatId, feeId, dueDay))
                    /\ feeJobs' = IF oJob = "ok"
                                  THEN feeJobs \cup {FeeJobRow(tenantId, feeId, jobName)}
                                  ELSE feeJobs
                    /\ toolResult' =
                          IF oJob = "throw"
                          THEN ToolResultFor("fees_create", "error", {"create_failed"}, ctx)
                          ELSE ToolResultFor("fees_create", "ok",
                                  ConfirmationSays(emailSent, calendarCreated)
                                  \cup (IF contact THEN {"contacted_connector"} ELSE {}),
                                  ctx)
    /\ calendarEvents' = IF stored /\ calendarCreated
                         THEN calendarEvents \cup {CalendarEvent(tenantId, feeId, "mcp")}
                         ELSE calendarEvents
    /\ UNCHANGED mcpState
    /\ handlerFrame
    /\ UNCHANGED dbVars

\* fees_cancel.execute for the tool context (tenantId, chatId).
\*   fee        the first row of the SELECT of active fees of that type and day
\*   oFind, oUpd, oJobSel   outcomes of the three executeRestrictedSQL calls
\*   oUnsched   outcome of executePrivilegedSQL inside unscheduleCron
fees_cancel(tenantId, chatId, dueDay, fee, oFind, oUpd, oJobSel, oUnsched) ==
    LET matches == {f \in fees : /\ f.tenant = tenantId /\ f.chat = chatId
                                 /\ f.due_day = dueDay /\ f.is_active}
        jobRows == {r \in feeJobs : r.tenant = tenantId /\ r.fee = fee.id}
        ctx == Ctx(tenantId, chatId, fee.id)
    IN
    /\ pc = "idle"
    /\ IF matches = {} THEN fee = NoFee ELSE fee \in matches
    \* an outcome is drawn only for a call that is made
    /\ (oFind # "ok" \/ matches = {}) => (oUpd = "ok" /\ oJobSel = "ok" /\ oUnsched = "ok")
    /\ oUpd # "ok" => (oJobSel = "ok" /\ oUnsched = "ok")
    /\ (oJobSel # "ok" \/ jobRows = {}) => oUnsched = "ok"
    /\ IF oFind # "ok"
       THEN /\ toolResult' = ToolResult("fees_cancel", "error", {"find_failed"})
            /\ UNCHANGED <<fees, cronJobs>>
       ELSE IF matches = {}
       THEN /\ toolResult' = ToolResult("fees_cancel", "ok", {"no_active_fee"})
            /\ UNCHANGED <<fees, cronJobs>>
       ELSE IF oUpd # "ok"
       THEN /\ toolResult' = ToolResultFor("fees_cancel", "error", {"cancel_failed"}, ctx)
            /\ UNCHANGED <<fees, cronJobs>>
       ELSE /\ fees' = (fees \ {fee}) \cup {[fee EXCEPT !.is_active = FALSE]}
            /\ IF oJobSel = "throw"
               THEN /\ toolResult' = ToolResultFor("fees_cancel", "error",
                                                   {"cancel_failed"}, ctx)
                    /\ UNCHANGED cronJobs
               ELSE IF oJobSel = "ok" /\ jobRows # {}
               THEN LET jobName == (CHOOSE r \in jobRows : TRUE).name IN
                    IF \/ ~isValidJobName(jobName)
                       \/ oUnsched # "ok"
                       \/ cron_unschedule_fails(cronJobs, jobName)
                    THEN /\ toolResult' = ToolResultFor("fees_cancel", "error",
                                                        {"cancelled", "unschedule_failed"},
                                                        ctx)
                         /\ UNCHANGED cronJobs
                    ELSE /\ cronJobs' = cron_unschedule(cronJobs, jobName)
                         /\ toolResult' = ToolResultFor("fees_cancel", "ok",
                                                        {"cancelled"}, ctx)
               ELSE /\ toolResult' = ToolResultFor("fees_cancel", "ok", {"cancelled"}, ctx)
                    /\ UNCHANGED cronJobs
    /\ UNCHANGED <<feeJobs, mcpState, calendarEvents>>
    /\ handlerFrame
    /\ UNCHANGED dbVars

\* A timer is removed from cron.job outside the tools (out of band).
ManualUnschedule(jobName) ==
    /\ pc = "idle"
    /\ \E j \in cronJobs : j.name = jobName
    /\ cronJobs' = cron_unschedule(cronJobs, jobName)
    /\ toolResult' = NoToolResult
    /\ UNCHANGED <<fees, feeJobs, mcpState, calendarEvents>>
    /\ handlerFrame
    /\ UNCHANGED dbVars

\* z.enum of incomingMessageRole
MessageRoles == {"user", "assistant", "system", "system_routine_task"}

\* The request that net.http_post makes of a stored payload.
RequestOf(payload) ==
    [method |-> "POST", body |-> "json", tenantId |-> payload.tenantId,
     restValid |-> /\ payload.userPrompt # ""
                   /\ payload.incomingMessageRole \in MessageRoles
                   /\ payload.callbackUrl # "",
     role |-> payload.incomingMessageRole, id |-> payload.id,
     userId |-> payload.userId, feeId |-> payload.feeId]

\* A registered timer fires: the timer runtime posts its payload to natural-db.
FireTimer(job) ==
    /\ job \in cronJobs
    /\ Receive(RequestOf(job.payload))

\* The MCPClientManager singleton gets, loses or lacks a live client.
SetConnector(state) ==
    /\ pc = "idle"
    /\ mcpState' = state
    /\ toolResult' = NoToolResult
    /\ UNCHANGED <<fees, feeJobs, cronJobs, calendarEvents>>
    /\ handlerFrame
    /\ UNCHANGED dbVars

Outcomes == {"ok", "error", "throw"}

\* The (tenant, chat) pairs the tools are created for: each chat belongs to a tenant.
ToolContexts == {<<T1, ChatShort>>, <<T2, ChatLong>>}

AllFees == {Fee(f, x[1], x[2], 1, a) : f \in FeeIds, x \in ToolContexts, a \in BOOLEAN}
AllJobs == {FeeJob(x[1], x[2], f, 1) : x \in ToolContexts, f \in FeeIds}

NextTools ==
    \/ \E x \in ToolContexts, f \in FeeIds,
          oi \in Outcomes, os \in {"ok", "error"}, oj \in Outcomes,
          eo \in BOOLEAN, ek \in BOOLEAN, ck \in BOOLEAN :
          fees_create(x[1], x[2], 1, f, oi, os, oj, eo, ek, ck, ck)
    \/ \E x \in ToolContexts, f \in AllFees \cup {NoFee},
          o1 \in {"ok", "error"}, o2 \in {"ok", "error"}, o3 \in Outcomes,
          o4 \in {"ok", "error"} :
          fees_cancel(x[1], x[2], 1, f, o1, o2, o3, o4)
    \/ \E j \in AllJobs : ManualUnschedule(j.name)
    \/ \E j \in AllJobs : FireTimer(j)
    \* the fired request, served without a failure of a collaborator
    \/ ParseRequest
    \/ LoadContext("ok")
    \/ \E f \in BOOLEAN : PromptLookup(f)
    \/ Generate("text", "none", FeeA)
    \/ Persist("ok")
    \/ Deliver("ok")
    \/ Finish

(***************************************************************************)
(* SpecConnector: the MCPClientManager operations and the tools of         *)
(* createTools that send email or keep calendar events through it.         *)
(* A result's `says` holds the facts its message states, and the marker    *)
(* "contacted_connector" when the call reached the Zapier MCP client.      *)
(* A tool reads isAvailable() before and after its database statement;     *)
(* both reads see the same connector state here.                           *)
(***************************************************************************)
ConnectorStates == {"absent", "unavailable", "available"}

\* What an operation of MCPClientManager returns: { success, message }.
\*   answer   what the Zapier MCP client answers when it is called
ConnectorResult(op, answer) ==
    IF isAvailable
    THEN ToolResult(op, IF answer THEN "success" ELSE "failure", {"contacted_connector"})
    ELSE ToolResult(op, "failure", {"mcp_not_available"})

connectorFrame ==
    /\ UNCHANGED <<fees, feeJobs, mcpState, cronJobs>>
    /\ handlerFrame
    /\ UNCHANGED dbVars

\* MCPClientManager.sendEmail
sendEmail(answer) ==
    /\ pc = "idle"
    /\ answer => isAvailable
    /\ toolResult' = ConnectorResult("sendEmail", answer)
    /\ UNCHANGED calendarEvents
    /\ connectorFrame

\* MCPClientManager.createCalendarEvent
createCalendarEvent(answer) ==
    /\ pc = "idle"
    /\ answer => isAvailable
    /\ toolResult' = ConnectorResult("createCalendarEvent", answer)
    /\ UNCHANGED calendarEvents
    /\ connectorFrame

\* MCPClientManager.deleteCalendarEvent
deleteCalendarEvent(answer) ==
    /\ pc = "idle"
    /\ answer => isAvailable
    /\ toolResult' = ConnectorResult("deleteCalendarEvent", answer)
    /\ UNCHANGED calendarEvents
    /\ connectorFrame

\* The outcomes of getChatEmailSettings: no row or a failed SELECT, a row with
\* email_enabled false, a row with email_enabled true.
EmailSettings == {"error", "disabled", "enabled"}

\* notifications_send_email.execute
\*   toGiven    the call names a recipient
\*   settings   what getChatEmailSettings yields when it is consulted
\*   answer     what the connector answers when it is contacted
notifications_send_email(tenantId, chatId, toGiven, settings, answer) ==
    LET ctx == Ctx(tenantId, chatId, <<>>)
        tool == "notifications_send_email"
    IN
    /\ pc = "idle"
    /\ toGiven => settings = "enabled"
    /\ answer => (isAvailable /\ settings = "enabled")
    /\ toolResult' =
          IF ~toGiven /\ settings = "error"
          THEN ToolResultFor(tool, "error", {"no_address"}, ctx)
          ELSE IF ~toGiven /\ settings = "disabled"
          THEN ToolResultFor(tool, "error", {"email_disabled"}, ctx)
          ELSE IF isAvailable
          THEN IF answer
               THEN ToolResultFor(tool, "ok", {"email_sent", "contacted_connector"}, ctx)
               ELSE ToolResultFor(tool, "error", {"send_failed", "contacted_connector"}, ctx)
          ELSE ToolResultFor(tool, "fallback", {"email_queued", "mcp_not_available"}, ctx)
    /\ UNCHANGED calendarEvents
    /\ connectorFrame

\* docs_email_summary.execute
\*   docFound   the SELECT of the document succeeded and found it
\*   settings   "disabled" still yields the stored address: only .error is read
docs_email_summary(tenantId, chatId, docFound, toGiven, settings, answer) ==
    LET ctx == Ctx(tenantId, chatId, <<>>)
        tool == "docs_email_summary"
        addressed == toGiven \/ settings # "error"
    IN
    /\ pc = "idle"
    /\ ~docFound => (toGiven /\ settings = "enabled")
    /\ toGiven => settings = "enabled"
    /\ answer => (isAvailable /\ docFound /\ addressed)
    /\ toolResult' =
          IF ~docFound
          THEN ToolResultFor(tool, "error", {"document_not_found"}, ctx)
          ELSE IF ~addressed
          THEN ToolResultFor(tool, "error", {"no_address"}, ctx)
          ELSE IF isAvailable
          THEN IF answer
               THEN ToolResultFor(tool, "ok", {"email_sent", "contacted_connector"}, ctx)
               ELSE ToolResultFor(tool, "error", {"send_failed", "contacted_connector"}, ctx)
          ELSE ToolResultFor(tool, "fallback",
                             {"summary_in_chat", "mcp_not_available"}, ctx)
    /\ UNCHANGED calendarEvents
    /\ connectorFrame

\* calendar_create_event_for_fee.execute
\*   oFee     outcome of the SELECT of the active fee
\*   answer   what the connector answers when it is contacted
\*   oIns     outcome of the INSERT INTO fee_calendar_events
calendar_create_event_for_fee(tenantId, chatId, feeId, oFee, answer, oIns) ==
    LET ctx == Ctx(tenantId, chatId, feeId)
        tool == "calendar_create_event_for_fee"
        found == /\ oFee = "ok"
                 /\ \E f \in fees : f.id = feeId /\ f.tenant = tenantId /\ f.is_active
        externalEventId == IF isAvailable THEN "mcp" ELSE "fallback"
    IN
    /\ pc = "idle"
    /\ answer => (isAvailable /\ found)
    /\ oIns # "ok" => (found /\ (isAvailable => answer))
    /\ IF ~found
       THEN /\ toolResult' = ToolResultFor(tool, "error", {"fee_not_found"}, ctx)
            /\ UNCHANGED calendarEvents
       ELSE IF isAvailable /\ ~answer
       THEN /\ toolResult' = ToolResultFor(tool, "error",
                                           {"create_failed", "contacted_connector"}, ctx)
            /\ UNCHANGED calendarEvents
       ELSE IF oIns # "ok"
       THEN /\ toolResult' = ToolResultFor(tool, "error",
                                 {"store_failed"}
                                 \cup (IF isAvailable THEN {"contacted_connector"} ELSE {}),
                                 ctx)
            /\ UNCHANGED calendarEvents
       ELSE /\ calendarEvents' =
                  calendarEvents \cup {CalendarEvent(tenantId, feeId, externalEventId)}
            /\ toolResult' =
                  IF isAvailable
                  THEN ToolResultFor(tool, "ok",
                                     {"calendar_created", "contacted_connector"}, ctx)
                  ELSE ToolResultFor(tool, "ok",
                                     {"calendar_queued", "mcp_not_available"}, ctx)
    /\ connectorFrame

\* calendar_cancel_event_for_fee.execute
\*   oSel     outcome of the SELECT of the event mapping
\*   event    the first row of that SELECT
\*   answer   what the connector answers when it is contacted
\*   oDel     outcome of the DELETE of the mapping
calendar_cancel_event_for_fee(tenantId, chatId, feeId, oSel, event, answer, oDel) ==
    LET ctx == Ctx(tenantId, chatId, feeId)
        tool == "calendar_cancel_event_for_fee"
        mappings == {e \in calendarEvents : e.tenant = tenantId /\ e.fee = feeId}
        reached == oSel = "ok" /\ mappings # {}
    IN
    /\ pc = "idle"
    /\ IF mappings = {} THEN event = NoEvent ELSE event \in mappings
    /\ answer => (isAvailable /\ reached)
    /\ oDel # "ok" => (reached /\ (isAvailable => answer))
    /\ IF oSel # "ok"
       THEN /\ toolResult' = ToolResultFor(tool, "error", {"find_failed"}, ctx)
            /\ UNCHANGED calendarEvents
       ELSE IF mappings = {}
       THEN /\ toolResult' = ToolResultFor(tool, "ok", {"no_event"}, ctx)
            /\ UNCHANGED calendarEvents
       ELSE IF isAvailable /\ ~answer
       THEN /\ toolResult' = ToolResultFor(tool, "error",
                                           {"delete_failed", "contacted_connector"}, ctx)
            /\ UNCHANGED calendarEvents
       ELSE IF oDel # "ok"
       THEN /\ toolResult' = ToolResultFor(tool, "error",
                                 {"remove_failed"}
                                 \cup (IF isAvailable THEN {"contacted_connector"} ELSE {}),
                                 ctx)
            /\ UNCHANGED calendarEvents
       ELSE /\ calendarEvents' = calendarEvents \ {event}
            /\ toolResult' =
                  IF isAvailable
                  THEN ToolResultFor(tool, "ok",
                                     {"calendar_cancelled", "contacted_connector"}, ctx)
                  ELSE ToolResultFor(tool, "ok",
                                     {"mapping_removed", "mcp_not_available"}, ctx)
    /\ connectorFrame

\* The connector tools are exercised on one fee.
ConnectorFees == {FeeA}

AllEvents == {CalendarEvent(x[1], f, e) :
                 x \in ToolContexts, f \in ConnectorFees, e \in {"mcp", "fallback"}}

NextConnector ==
    \/ \E s \in ConnectorStates : SetConnector(s)
    \/ \E a \in BOOLEAN : sendEmail(a)
    \/ \E a \in BOOLEAN : createCalendarEvent(a)
    \/ \E a \in BOOLEAN : deleteCalendarEvent(a)
    \/ \E x \in ToolContexts, g \in BOOLEAN, s \in EmailSettings, a \in BOOLEAN :
          notifications_send_email(x[1], x[2], g, s, a)
    \/ \E x \in ToolContexts, d \in BOOLEAN, g \in BOOLEAN, s \in EmailSettings,
          a \in BOOLEAN :
          docs_email_summary(x[1], x[2], d, g, s, a)
    \/ \E x \in ToolContexts, f \in ConnectorFees, o1 \in {"ok", "error"}, a \in BOOLEAN,
          o2 \in {"ok", "error"} :
          calendar_create_event_for_fee(x[1], x[2], f, o1, a, o2)
    \/ \E x \in ToolContexts, f \in ConnectorFees, o1 \in {"ok", "error"},
          e \in AllEvents \cup {NoEvent}, a \in BOOLEAN, o2 \in {"ok", "error"} :
          calendar_cancel_event_for_fee(x[1], x[2], f, o1, e, a, o2)
    \/ \E x \in ToolContexts, f \in ConnectorFees, oi \in {"ok", "error"},
          os \in {"ok", "error"}, oj \in {"ok", "error"},
          eo \in BOOLEAN, ek \in BOOLEAN, ck \in BOOLEAN, ci \in BOOLEAN :
          fees_create(x[1], x[2], 1, f, oi, os, oj, eo, ek, ck, ci)
    \/ \E x \in ToolContexts, f \in AllFees \cup {NoFee},
          o1 \in {"ok", "error"}, o2 \in {"ok", "error"}, o4 \in {"ok", "error"} :
          fees_cancel(x[1], x[2], 1, f, o1, o2, "ok", o4)

(***************************************************************************)
(* SpecSql: the tools that hand rows back to the generation engine.        *)
(* executeRestrictedSQL(query, params, tenantId) runs the statement in the *)
(* sandboxed lane with tenantId bound to the evaluation context of the     *)
(* tenant_isolation policies. A result's `data` holds the rows returned,   *)
(* each with the tenant it belongs to.                                     *)
(***************************************************************************)
SqlResult(tool, status, data, ctx) ==
    [tool |-> tool, status |-> status, says |-> {}, ctx |-> ctx, data |-> data]

\* CREATE POLICY "tenant_isolation" ... USING (tenant_id = public.current_tenant_id())
TenantIsolation(row, tenantId) == row.tenant = tenantId

FeesTable == <<"f", "e", "e", "s">>
SummaryView == <<"t", "e", "n", "a", "n", "t", "_", "d", "a", "t", "a", "_",
                 "s", "u", "m", "m", "a", "r", "y">>
QualifiedFees == <<"m", "e", "m", "o", "r", "i", "e", "s", ".">> \o FeesTable

\* IDENTIFIER_REGEX = /^[a-zA-Z_][a-zA-Z0-9_]*$/
isValidIdentifier(name) ==
    /\ Len(name) > 0
    /\ name[1] \in Letters \cup {"_"}
    /\ \A i \in 1..Len(name) : name[i] \in WordChars

\* memories.tenant_data_summary: one row per row of public.tenants with the
\* number of fees of that tenant. A view reads its tables with the rights of its
\* owner, so the tenant_isolation policies do not filter what it counts.
TenantDataSummary ==
    {[tenant |-> t, fees_count |-> Cardinality({f \in fees : f.tenant = t})] :
        t \in Tenants}

\* The rows of a relation that a statement of the sandboxed lane sees.
Relation(name, tenantId) ==
    IF name = SummaryView
    THEN TenantDataSummary
    ELSE {f \in fees : TenantIsolation(f, tenantId)}

\* The statements the engine is taken to pass to execute_sql: a SELECT or an
\* UPDATE ... SET is_active = false on a relation, over every row or over the
\* rows of a tenant id written into the text.
SqlQueries ==
    [verb : {"SELECT", "UPDATE"}, from : {FeesTable, SummaryView},
     where : Tenants \cup {"any"}]

Selected(q, tenantId) ==
    {r \in Relation(q.from, tenantId) : q.where = "any" \/ r.tenant = q.where}

\* execute_sql.execute
execute_sql(tenantId, chatId, q, outcome) ==
    LET ctx == Ctx(tenantId, chatId, <<>>)
        hit == Selected(q, tenantId)
    IN
    /\ pc = "idle"
    /\ IF outcome = "throw"
       THEN /\ toolResult' = ToolResultFor("execute_sql", "threw", {}, ctx)
            /\ UNCHANGED fees
       ELSE IF outcome = "error" \/ (q.verb = "UPDATE" /\ q.from = SummaryView)
       THEN /\ toolResult' = ToolResultFor("execute_sql", "error", {"sql_error"}, ctx)
            /\ UNCHANGED fees
       ELSE IF q.verb = "SELECT"
       THEN /\ toolResult' = SqlResult("execute_sql", "ok", hit, ctx)
            /\ UNCHANGED fees
       ELSE /\ fees' = (fees \ hit) \cup {[f EXCEPT !.is_active = FALSE] : f \in hit}
            /\ toolResult' = SqlResult("execute_sql", "ok", hit, ctx)
    /\ UNCHANGED <<feeJobs, mcpState, calendarEvents, cronJobs>>
    /\ handlerFrame
    /\ UNCHANGED dbVars

\* get_distinct_column_values.execute, asked for the column tenant_id
get_distinct_column_values(tenantId, chatId, table_name, outcome) ==
    LET ctx == Ctx(tenantId, chatId, <<>>)
        tool == "get_distinct_column_values"
    IN
    /\ pc = "idle"
    /\ toolResult' =
          IF ~isValidIdentifier(table_name)
          THEN ToolResultFor(tool, "error", {"invalid_name"}, ctx)
          ELSE IF outcome = "throw"
          THEN ToolResultFor(tool, "threw", {}, ctx)
          ELSE IF outcome = "error"
          THEN ToolResultFor(tool, "error", {"sql_error"}, ctx)
          ELSE SqlResult(tool, "ok",
                         {[tenant |-> r.tenant] : r \in Relation(table_name, tenantId)},
                         ctx)
    /\ UNCHANGED <<fees, feeJobs, mcpState, calendarEvents, cronJobs>>
    /\ handlerFrame
    /\ UNCHANGED dbVars

\* fees_list_active.execute
fees_list_active(tenantId, chatId, outcome) ==
    LET ctx == Ctx(tenantId, chatId, <<>>)
        tool == "fees_list_active"
        listed == {f \in Relation(FeesTable, tenantId) :
                      f.tenant = tenantId /\ f.chat = chatId /\ f.is_active}
    IN
    /\ pc = "idle"
    /\ toolResult' =
          IF outcome # "ok"
          THEN ToolResultFor(tool, "error", {"list_failed"}, ctx)
          ELSE SqlResult(tool, "ok", listed, ctx)
    /\ UNCHANGED <<fees, feeJobs, mcpState, calendarEvents, cronJobs>>
    /\ handlerFrame
    /\ UNCHANGED dbVars

RowTools == {"execute_sql", "get_distinct_column_values", "fees_list_active"}

NextSql ==
    \/ \E x \in ToolContexts, f \in FeeIds :
          fees_create(x[1], x[2], 1, f, "ok", "ok", "ok", FALSE, FALSE, FALSE, FALSE)
    \/ \E x \in ToolContexts, q \in SqlQueries, o \in Outcomes :
          execute_sql(x[1], x[2], q, o)
    \/ \E x \in ToolContexts, n \in {FeesTable, SummaryView, QualifiedFees},
          o \in Outcomes :
          get_distinct_column_values(x[1], x[2], n, o)
    \/ \E x \in ToolContexts, o \in Outcomes : fees_list_active(x[1], x[2], o)

(***************************************************************************)
(* Specifications.                                                         *)
(***************************************************************************)
(***************************************************************************)
(* Two requests in flight in one process (SpecConcurrent).  Each request   *)
(* runs the steps of the handler with its own locals; the process holds    *)
(* one MCPClientManager, and the store is shared.                          *)
(***************************************************************************)
InFlight(r) == inflight[r].pc \notin {"idle", "done"}

\* Most recent and relevant messages for (tenantId, conversationId).
loadRecentAndRelevantMessages(chatId, tenantId) ==
    {m \in rows : m.tbl = "messages" /\ m.tenant_id = tenantId /\ m.chat_id = chatId}

\* What the concurrent steps leave alone: the single-request handler state.
sequentialFrame ==
    UNCHANGED <<variant, systemPrompts, pc, req, raw, callbackUrl, promptFound,
                systemPrompt, finalResponse, steps, lastText, toolCalled,
                persistStage, persisted, storageFailed, deliveries, response,
                raisedAt, caught, apologyFailed, cronJobs, cronJobs0>>

storeFrame == UNCHANGED <<sessionGuc, localGuc, inTxn, lastResult>>

connectorUntouched == UNCHANGED <<fees, feeJobs, toolResult, calendarEvents>>

SlotStep(r, fields) ==
    inflight' = [inflight EXCEPT ![r] = fields]

\* A request arrives: { userPrompt, id, userId, metadata, tenantId } = raw.data
CReceive(r, tenantId, chatId) ==
    /\ inflight[r].pc = "idle"
    /\ SlotStep(r, [IdleSlot EXCEPT !.pc = "load", !.tenant = tenantId, !.chat = chatId])
    /\ UNCHANGED <<rows, mcpState>>
    /\ sequentialFrame /\ storeFrame /\ connectorUntouched

CLoadContext(r) ==
    /\ inflight[r].pc = "load"
    /\ SlotStep(r, [inflight[r] EXCEPT
                      !.pc = "mcp",
                      !.context = loadRecentAndRelevantMessages(inflight[r].chat,
                                                                inflight[r].tenant)])
    /\ UNCHANGED <<rows, mcpState>>
    /\ sequentialFrame /\ storeFrame /\ connectorUntouched

\* MCPClientManager.initialize, up to its await:
\*   this.client = new ZapierMCPClient(...)
initializeBegin(r) ==
    /\ inflight[r].pc = "mcp"
    /\ inflight' = [s \in Slots |->
                      IF s = r THEN [inflight[s] EXCEPT !.pc = "connecting", !.held = TRUE]
                      ELSE [inflight[s] EXCEPT !.held = FALSE]]
    /\ mcpState' = "unavailable"
    /\ UNCHANGED rows
    /\ sequentialFrame /\ storeFrame /\ connectorUntouched

\* An initialize that leaves this.client as it is when it fails.
initializeEndKeepsClient(r, success) ==
    /\ inflight[r].pc = "connecting"
    /\ SlotStep(r, [inflight[r] EXCEPT !.pc = "prompt"])
    /\ mcpState' = IF success /\ inflight[r].held THEN "available" ELSE mcpState
    /\ UNCHANGED rows
    /\ sequentialFrame /\ storeFrame /\ connectorUntouched

\* MCPClientManager.initialize, after its await:
\*   if (!success) this.client = null
initializeEnd(r, success) ==
    /\ inflight[r].pc = "connecting"
    /\ IF success
       THEN /\ SlotStep(r, [inflight[r] EXCEPT !.pc = "prompt"])
            /\ mcpState' = IF inflight[r].held THEN "available" ELSE mcpState
       ELSE /\ inflight' = [s \in Slots |->
                              IF s = r THEN [inflight[s] EXCEPT !.pc = "prompt", !.held = FALSE]
                              ELSE [inflight[s] EXCEPT !.held = FALSE]]
            /\ mcpState' = "absent"
    /\ UNCHANGED rows
    /\ sequentialFrame /\ storeFrame /\ connectorUntouched

CPromptLookup(r) ==
    /\ inflight[r].pc = "prompt"
    /\ LET found == PromptQuery(inflight[r].chat, inflight[r].tenant)
       IN SlotStep(r, [inflight[r] EXCEPT
                         !.pc = "tools",
                         !.prompt = IF found # {} THEN CHOOSE p \in found : TRUE
                                    ELSE DefaultPrompt])
    /\ UNCHANGED <<rows, mcpState>>
    /\ sequentialFrame /\ storeFrame /\ connectorUntouched

\* createTools(supabase, chatId, tenantId, mcpClient), mcpAvailable: mcpClient?.isAvailable()
CCreateTools(r) ==
    /\ inflight[r].pc = "tools"
    /\ SlotStep(r, [inflight[r] EXCEPT
                      !.pc = "generate",
                      !.observed = IF isAvailable THEN "yes" ELSE "no"])
    /\ UNCHANGED <<rows, mcpState>>
    /\ sequentialFrame /\ storeFrame /\ connectorUntouched

\* The tenants whose data the generation was given: the prompt and the context.
Sources(slot) ==
    {m.tenant_id : m \in slot.context} \cup ({slot.prompt.tenant} \ {"none"})

CGenerate(r) ==
    /\ inflight[r].pc = "generate"
    /\ SlotStep(r, [inflight[r] EXCEPT !.pc = "persist"])
    /\ UNCHANGED <<rows, mcpState>>
    /\ sequentialFrame /\ storeFrame /\ connectorUntouched

\* insertMessage(..., chatId, tenantId) for the user and the assistant message
CPersist(r) ==
    /\ inflight[r].pc = "persist"
    /\ LET m == Row("messages", inflight[r].tenant, inflight[r].chat)
       IN /\ rows' = rows \cup {m}
          /\ SlotStep(r, [inflight[r] EXCEPT !.pc = "deliver", !.persisted = {m}])
    /\ UNCHANGED mcpState
    /\ sequentialFrame /\ storeFrame /\ connectorUntouched

CDeliver(r) ==
    /\ inflight[r].pc = "deliver"
    /\ SlotStep(r, [inflight[r] EXCEPT
                      !.pc = "done",
                      !.delivered = [id |-> inflight[r].chat,
                                     tenantId |-> inflight[r].tenant,
                                     sources |-> Sources(inflight[r])]])
    /\ UNCHANGED <<rows, mcpState>>
    /\ sequentialFrame /\ storeFrame /\ connectorUntouched

CFinish(r) ==
    /\ inflight[r].pc = "done"
    /\ SlotStep(r, IdleSlot)
    /\ UNCHANGED <<rows, mcpState>>
    /\ sequentialFrame /\ storeFrame /\ connectorUntouched

\* The next step of request r, whatever it is.
StepOf(r) ==
    \/ CLoadContext(r)
    \/ initializeBegin(r)
    \/ \E s \in BOOLEAN : initializeEnd(r, s)
    \/ CPromptLookup(r)
    \/ CCreateTools(r)
    \/ CGenerate(r)
    \/ CPersist(r)
    \/ CDeliver(r)

NextConcurrent ==
    \/ \E r \in Slots, t \in Tenants : CReceive(r, t, ChatShort)
    \/ \E r \in Slots : CLoadContext(r)
    \/ \E r \in Slots : initializeBegin(r)
    \/ \E r \in Slots, s \in BOOLEAN : initializeEnd(r, s)
    \/ \E r \in Slots : CPromptLookup(r)
    \/ \E r \in Slots : CCreateTools(r)
    \/ \E r \in Slots : CGenerate(r)
    \/ \E r \in Slots : CPersist(r)
    \/ \E r \in Slots : CDeliver(r)
    \/ \E r \in Slots : CFinish(r)

TInit ==
    /\ fees = {}
    /\ feeJobs = {}
    /\ mcpState = "absent"
    /\ toolResult = NoToolResult
    /\ calendarEvents = {}

InitDb == DbInit /\ HInit /\ TInit /\ variant = V1 /\ systemPrompts = {}
SpecResolver == InitDb /\ [][NextResolver]_vars
SpecRls == InitDb /\ [][NextRls]_vars

InitTools == DbInit /\ HInit /\ TInit /\ variant = V2 /\ systemPrompts = {}
SpecTools == InitTools /\ [][NextTools]_vars

SpecScheduler == InitDb /\ [][NextScheduler]_vars

\* createTools is given the MCPClientManager in the first definition of the handler.
InitConnector == DbInit /\ HInit /\ TInit /\ variant = V1 /\ systemPrompts = {}
SpecConnector == InitConnector /\ [][NextConnector]_vars

SpecSql == InitTools /\ [][NextSql]_vars

\* The fee tools with every database and scheduler call of theirs succeeding.
NextFees ==
    \/ \E x \in ToolContexts, f \in FeeIds :
          fees_create(x[1], x[2], 1, f, "ok", "ok", "ok", FALSE, FALSE, FALSE, FALSE)
    \/ \E x \in ToolContexts, f \in AllFees \cup {NoFee} :
          fees_cancel(x[1], x[2], 1, f, "ok", "ok", "ok", "ok")
    \/ \E x \in ToolContexts : fees_list_active(x[1], x[2], "ok")
    \/ \E j \in AllJobs : ManualUnschedule(j.name)
SpecFees == InitTools /\ [][NextFees]_vars

\* A tenant with two conversations, and another tenant.
ConversationContexts == {<<T1, ChatShort>>, <<T1, ChatLong>>, <<T2, ChatLong>>}

\* The rows fee_calendar_events can hold for the fees of these conversations.
FeeEvents == {CalendarEvent(t, f, e) : t \in Tenants, f \in FeeIds, e \in {"mcp", "fallback"}}

\* The tools that take a fee_id from the generation engine, with every call of
\* theirs succeeding.
NextConversations ==
    \/ \E s \in ConnectorStates : SetConnector(s)
    \/ \E x \in ConversationContexts, f \in FeeIds :
          fees_create(x[1], x[2], 1, f, "ok", "ok", "ok", FALSE, FALSE, FALSE, FALSE)
    \/ \E x \in ConversationContexts, f \in FeeIds :
          calendar_create_event_for_fee(x[1], x[2], f, "ok", isAvailable, "ok")
    \/ \E x \in ConversationContexts, f \in FeeIds, e \in FeeEvents \cup {NoEvent} :
          calendar_cancel_event_for_fee(x[1], x[2], f, "ok", e, isAvailable, "ok")
SpecConversations == InitConnector /\ [][NextConversations]_vars

(***************************************************************************)
(* SpecNotifications: the notification settings of a conversation and the  *)
(* tools that send email to the address stored in them.                    *)
(***************************************************************************)
\* A row of memories.notification_settings; email_enabled is "true", "false" or
\* "null". PRIMARY KEY (tenant_id, chat_id).
SettingsRow(tenantId, chatId, enabled) ==
    [tbl |-> "notification_settings", tenant_id |-> tenantId, chat_id |-> chatId,
     email_enabled |-> enabled]

\* A parameter the call left out is bound as NULL: the column is named in the
\* INSERT, so its DEFAULT does not apply.
BindParam(v) == IF v = "undefined" THEN "null" ELSE v

SettingsOf(tenantId, chatId) ==
    {s \in rows : /\ s.tbl = "notification_settings"
                  /\ s.tenant_id = tenantId /\ s.chat_id = chatId}

\* getChatEmailSettings(tenantId, chatId), as its callers read it: "error" when
\* no row is found, "enabled" when email_enabled is truthy, else "disabled".
getChatEmailSettings(tenantId, chatId) ==
    LET found == SettingsOf(tenantId, chatId) IN
    IF found = {} THEN "error"
    ELSE IF (CHOOSE s \in found : TRUE).email_enabled = "true" THEN "enabled"
    ELSE "disabled"

\* fees_create: !emailSettings.error && emailSettings.email && emailSettings.email_enabled
EmailConfirmationOn(settings) == settings = "enabled"

\* notifications_set_email_prefs.execute
\*   email_enabled   "true", "false", or "undefined" when the call leaves it out
\*   outcome         outcome of the INSERT ... ON CONFLICT DO UPDATE
notifications_set_email_prefs(tenantId, chatId, email_enabled, outcome) ==
    LET ctx == Ctx(tenantId, chatId, <<>>)
        tool == "notifications_set_email_prefs"
        stored == BindParam(email_enabled)
    IN
    /\ pc = "idle"
    /\ IF outcome # "ok"
       THEN /\ toolResult' = ToolResultFor(tool, "error", {"update_failed"}, ctx)
            /\ UNCHANGED rows
       ELSE /\ rows' = (rows \ SettingsOf(tenantId, chatId))
                       \cup {SettingsRow(tenantId, chatId, stored)}
            /\ toolResult' =
                  ToolResultFor(tool, "ok",
                                {"prefs_updated",
                                 IF stored = "true" THEN "enabled" ELSE "disabled"},
                                ctx)
    /\ UNCHANGED <<sessionGuc, localGuc, inTxn, lastResult>>
    /\ UNCHANGED <<fees, feeJobs, mcpState, cronJobs, calendarEvents>>
    /\ handlerFrame

NextNotifications ==
    \/ \E s \in ConnectorStates : SetConnector(s)
    \/ \E x \in ToolContexts, e \in {"true", "false", "undefined"}, o \in {"ok", "error"} :
          notifications_set_email_prefs(x[1], x[2], e, o)
    \/ \E x \in ToolContexts, g \in BOOLEAN, a \in BOOLEAN :
          notifications_send_email(x[1], x[2], g,
              IF g THEN "enabled" ELSE getChatEmailSettings(x[1], x[2]), a)
    \/ \E x \in ToolContexts, g \in BOOLEAN, a \in BOOLEAN :
          docs_email_summary(x[1], x[2], TRUE, g,
              IF g THEN "enabled" ELSE getChatEmailSettings(x[1], x[2]), a)
    \/ \E x \in ToolContexts, f \in ConnectorFees, ek \in BOOLEAN :
          fees_create(x[1], x[2], 1, f, "ok", "ok", "ok",
                      EmailConfirmationOn(getChatEmailSettings(x[1], x[2])),
                      ek, FALSE, FALSE)
SpecNotifications == InitConnector /\ [][NextNotifications]_vars

\* part_006 initialises the connector on every request.
InitConcurrent ==
    DbInit /\ HInit /\ TInit /\ variant = V6 /\ systemPrompts \in PromptTables
SpecConcurrent == InitConcurrent /\ [][NextConcurrent]_vars

\* MCPClientManager.shutdown: if (this.client) await this.client.close(); this.client = null
shutdown ==
    /\ pc = "idle"
    /\ mcpState' = "absent"
    /\ inflight' = [s \in Slots |-> [inflight[s] EXCEPT !.held = FALSE]]
    /\ toolResult' = NoToolResult
    /\ UNCHANGED <<rows, fees, feeJobs, calendarEvents>>
    /\ sequentialFrame /\ storeFrame

\* The manager as the requests in flight and the connector operations use it.
NextManager ==
    \/ NextConcurrent
    \/ shutdown
    \/ \E a \in BOOLEAN : sendEmail(a)
    \/ \E a \in BOOLEAN : createCalendarEvent(a)
    \/ \E a \in BOOLEAN : deleteCalendarEvent(a)

InitManager == DbInit /\ HInit /\ TInit /\ variant = V6 /\ systemPrompts = {}
SpecManager == InitManager /\ [][NextManager]_vars

InitHandler ==
    DbInit /\ HInit /\ TInit /\ variant \in Variants /\ systemPrompts \in PromptTables
SpecHandler == InitHandler /\ [][NextHandler]_vars

Init == InitHandler
Next == NextDb \/ NextHandler
Spec == Init /\ [][Next]_vars

(***************************************************************************)
(* C6  A request whose body cannot be parsed, or whose tenantId is missing *)
(* or not UUID-shaped, is answered 400 and leaves no trace: no message     *)
(* row, no change of the timer registry, no call to the callback target.   *)
(***************************************************************************)
C6_RejectedWith400NoEffects ==
    (/\ pc = "done"
     /\ req.method = "POST"
     /\ (req.body = "unparseable" \/ req.tenantId \notin Tenants))
    => /\ response = 400
       /\ persisted = <<>>
       /\ deliveries = <<>>
       /\ cronJobs = cronJobs0

(***************************************************************************)
(* C7  Every request that passed validation (its callback target is known) *)
(* ends with at least one call to the callback target.                     *)
(***************************************************************************)
C7_ValidatedRequestDelivers ==
    (pc = "done" /\ callbackUrl # NULLV) => Len(deliveries) >= 1

(***************************************************************************)
(* C8  When a step of the store-messages block failed, the first call to   *)
(* the callback target still carries the generated reply, not an apology,  *)
(* and, that call succeeding, the handler answers 200.                     *)
(***************************************************************************)
C8_StorageFailureStillDeliversReply ==
    (pc = "done" /\ storageFailed)
    => /\ Len(deliveries) >= 1
       /\ deliveries[1] = Payload(finalResponse)
       /\ finalResponse \notin {APOLOGY, NOTEXT}
       /\ Len(deliveries) = 1 => response = 200

(***************************************************************************)
(* C9  A request that reached the store-messages block never leaves one    *)
(* row only and never more than two; two rows are the inbound message and  *)
(* the assistant's final reply, both under the request's tenant and chat.  *)
(***************************************************************************)
C9_NeverOneRowOnly ==
    (pc = "done" /\ persistStage # "none")
    => /\ Len(persisted) # 1
       /\ Len(persisted) <= 2
       /\ Len(persisted) = 2 =>
             persisted = <<MessageRow(req.role, "user prompt"),
                           MessageRow("assistant", finalResponse)>>

(***************************************************************************)
(* C10  Under an engine whose every generation result requests a tool      *)
(* call, generation stops within the step ceiling, and the handler then    *)
(* calls the callback target with the text last produced.                  *)
(***************************************************************************)
C10_RunawayStopsAndDeliversLastText ==
    /\ toolCalled => steps <= StepCeiling
    /\ (pc = "done" /\ toolCalled)
       => \E i \in 1..Len(deliveries) : deliveries[i].text = lastText

(***************************************************************************)
(* C11  Delivery is single-attempt: a request makes at most one call to    *)
(* the callback target, so a call that failed is followed by no other.     *)
(***************************************************************************)
C11_SingleDeliveryAttempt == Len(deliveries) <= 1

\* The apology calls among the calls a request made to the callback target.
ApologyCalls == {i \in 1..Len(deliveries) : deliveries[i].text = APOLOGY}

(***************************************************************************)
(* C12 (as stated)  Every exception raised once the callback target is     *)
(* known ends in the top-level catch with exactly one apology call and a   *)
(* 500; raised before the target is known, it causes no call at all.       *)
(***************************************************************************)
C12_AnyExceptionOneApology ==
    (pc = "done" /\ raisedAt # {})
    => IF callbackUrl # NULLV
       THEN /\ caught
            /\ Cardinality(ApologyCalls) = 1
            /\ response = 500
       ELSE deliveries = <<>>

(***************************************************************************)
(* C12 (amended)  Every exception that reaches the top-level catch ends    *)
(* the request with a 500.  When the callback target is known, the catch   *)
(* makes exactly one apology call, the last call of the request, carrying  *)
(* the request's own conversation id, user id and tenant id, and a failure *)
(* of that call changes nothing; when the target is not known, no call is  *)
(* made.                                                                   *)
(***************************************************************************)
C12_TopLevelCatchOneApology ==
    (pc = "done" /\ caught)
    => /\ response = 500
       /\ IF callbackUrl # NULLV
          THEN /\ ApologyCalls = {Len(deliveries)}
               /\ deliveries[Len(deliveries)] =
                     [text |-> APOLOGY, id |-> req.id, userId |-> req.userId,
                      tenantId |-> req.tenantId]
          ELSE deliveries = <<>>

C12_Witness ==
    /\ pc = "done"
    /\ caught
    /\ callbackUrl # NULLV
    /\ apologyFailed
    /\ "storage" \in raisedAt
    /\ req.id = ChatLong
    /\ req.tenantId = T2

(***************************************************************************)
(* C13  When the generation engine throws, the request still reaches the   *)
(* store-messages block and the callback target is called with the error   *)
(* reply; that call succeeding, the handler answers 200.                   *)
(***************************************************************************)
C13_EngineFailureDegrades ==
    (pc = "done" /\ "generate" \in raisedAt)
    => /\ persistStage # "none"
       /\ Len(deliveries) >= 1
       /\ deliveries[1] = Payload(ENGINE_ERROR)
       /\ Len(deliveries) = 1 => response = 200

(***************************************************************************)
(* C14  Scheduling is idempotent: the registry never holds two timers for  *)
(* the same tenant, chat and fee; a second registration for them arrives   *)
(* under the name of the first and replaces it.                            *)
(***************************************************************************)
C14_SchedulingIdempotent ==
    /\ \A j1, j2 \in cronJobs :
          (/\ j1.payload.tenantId = j2.payload.tenantId
           /\ j1.payload.id = j2.payload.id
           /\ j1.payload.feeId = j2.payload.feeId) => j1 = j2
    /\ \A j \in cronJobs : j.name = JobName(j.payload.id, j.payload.feeId)

C14_Witness ==
    /\ toolResult.tool = "scheduleCron"
    /\ toolResult.status = "ok"
    /\ "registered_again" \in toolResult.says
    /\ \E j \in cronJobs : /\ j.payload.feeId = FeeA
                           /\ j.payload.id = ChatShort
                           /\ j.schedule = CronExpression(15)
    /\ Cardinality({j \in cronJobs : j.payload.feeId = FeeA /\ j.payload.id = ChatShort}) = 1

(***************************************************************************)
(* C15  Job names are collision-free: two distinct fees, whatever their    *)
(* tenants and conversation ids, get distinct job names.                   *)
(***************************************************************************)
C15_JobNamesCollisionFree ==
    \A f1, f2 \in fees :
        f1.id # f2.id => JobName(f1.chat, f1.id) # JobName(f2.chat, f2.id)

(***************************************************************************)
(* C16  After fees_cancel reported a fee cancelled, the registry holds no  *)
(* timer for that fee and fee_jobs holds no row for it.                    *)
(***************************************************************************)
C16_CancelRemovesTimerAndRow ==
    (/\ toolResult.tool = "fees_cancel"
     /\ toolResult.status = "ok"
     /\ "cancelled" \in toolResult.says)
    => /\ \A j \in cronJobs : j.payload.feeId # toolResult.ctx.fee
       /\ \A r \in feeJobs : r.fee # toolResult.ctx.fee

(***************************************************************************)
(* C17  A fees_cancel that deactivates a fee whose timer is already gone   *)
(* from the registry returns a success result, unless a database call of   *)
(* the cancellation itself threw.                                          *)
(***************************************************************************)
C17_CancelSucceedsWhenTimerGone ==
    [][(/\ toolResult'.tool = "fees_cancel"
        /\ fees' # fees
        /\ \E r \in feeJobs : /\ r.fee = toolResult'.ctx.fee
                              /\ cron_unschedule_fails(cronJobs, r.name))
       => (toolResult'.status = "ok" \/ "cancel_failed" \in toolResult'.says)]_vars

(***************************************************************************)
(* C18  Every registered timer stores the tenant and the conversation of   *)
(* the request that created its fee, with role system_routine_task; a      *)
(* fired timer's request passes inbound validation and is served under     *)
(* that tenant and conversation: its stored rows and its reply carry them. *)
(***************************************************************************)
C18_TimerPayloadCarriesTenant ==
    /\ \A j \in cronJobs :
          /\ j.payload.incomingMessageRole = "system_routine_task"
          /\ \E f \in fees : /\ f.id = j.payload.feeId
                             /\ f.tenant = j.payload.tenantId
                             /\ f.chat = j.payload.id
    /\ (toolResult.tool = "fees_create" /\ toolResult.status = "ok")
       => \E j \in cronJobs : /\ j.payload.tenantId = toolResult.ctx.tenant
                              /\ j.payload.id = toolResult.ctx.chat
                              /\ j.payload.feeId = toolResult.ctx.fee
    /\ pc # "idle"
       => /\ response # 400
          /\ pc # "parse" => callbackUrl # NULLV
          /\ \E f \in fees : /\ f.id = req.feeId
                             /\ f.tenant = req.tenantId
                             /\ f.chat = req.id
                             /\ \A i \in 1..Len(persisted) :
                                   /\ persisted[i].tenant_id = f.tenant
                                   /\ persisted[i].chat_id = f.chat
                             /\ \A i \in 1..Len(deliveries) :
                                   /\ deliveries[i].tenantId = f.tenant
                                   /\ deliveries[i].id = f.chat

C18_Witness ==
    /\ pc = "done"
    /\ response = 200
    /\ req.role = "system_routine_task"
    /\ req.tenantId = T2
    /\ req.id = ChatLong
    /\ Len(persisted) = 2
    /\ Len(deliveries) = 1

(***************************************************************************)
(* C19  With the automation connector unavailable, a fees_create call      *)
(* whose own statements succeed inserts the fee, registers its timer and   *)
(* returns a non-error confirmation, and the confirmation states that the  *)
(* email/calendar confirmation was skipped.                                *)
(***************************************************************************)
C19_CreateWithoutConnectorSaysSkipped ==
    ( /\ toolResult.tool = "fees_create"
      /\ mcpState # "available"
      /\ toolResult.says \cap {"create_failed", "scheduling_failed"} = {} )
    => /\ toolResult.status = "ok"
       /\ \E f \in fees : f.id = toolResult.ctx.fee /\ f.is_active
       /\ \E j \in cronJobs : j.name = JobName(toolResult.ctx.chat, toolResult.ctx.fee)
       /\ "confirmation_skipped" \in toolResult.says

ConnectorOps == {"sendEmail", "createCalendarEvent", "deleteCalendarEvent"}

ConnectorTools == {"notifications_send_email", "docs_email_summary",
                   "calendar_create_event_for_fee", "calendar_cancel_event_for_fee"}

\* A message that reports the email or calendar action as done.
DoneFacts == {"email_sent", "calendar_created", "calendar_cancelled"}

C21_ToolFailureNotFatal == "tool" \notin raisedAt

(***************************************************************************)
(* C22  No tool reaches beyond the tenant fixed when createTools was       *)
(* called: whatever arguments the generation engine supplies, the rows a   *)
(* tool returns or changes for a request of one tenant are rows of that    *)
(* tenant only, and say nothing about the data of another tenant.          *)
(***************************************************************************)
C22_ToolRowsStayInTenant ==
    (toolResult.tool \in RowTools /\ toolResult.status = "ok")
       => \A r \in toolResult.data : r.tenant = toolResult.ctx.tenant

(***************************************************************************)
(* C23  The system prompt of a request is the active prompt stored for its *)
(* own (tenant, conversation) when there is one and the built-in default   *)
(* otherwise, never a prompt another tenant stored under the same          *)
(* conversation id; and the lack of an active prompt does not turn the     *)
(* request into an apology: no exception is raised by the prompt step.     *)
(***************************************************************************)
C23_OwnPromptOrDefault ==
    /\ systemPrompt # NoPrompt =>
          /\ systemPrompt.tenant \in {req.tenantId, "none"}
          /\ IF Prompt(req.tenantId, req.id) \in systemPrompts
             THEN systemPrompt = Prompt(req.tenantId, req.id)
             ELSE systemPrompt = DefaultPrompt
    /\ "prompt" \notin raisedAt

(***************************************************************************)
(* C24  Cancelling a fee performs the whole documented cleanup: after a    *)
(* fees_cancel that reports success the fee is inactive, the timer its     *)
(* bookkeeping row names is unscheduled, and no fee_calendar_events row    *)
(* (hence no external calendar event known to the system) remains for it.  *)
(***************************************************************************)
C24_CancelCleansCalendar ==
    ( /\ toolResult.tool = "fees_cancel"
      /\ toolResult.status = "ok"
      /\ "cancelled" \in toolResult.says )
    => /\ \A f \in fees : f.id = toolResult.ctx.fee => ~f.is_active
       /\ \A r \in feeJobs : r.fee = toolResult.ctx.fee =>
             ~\E j \in cronJobs : j.name = r.name
       /\ ~\E e \in calendarEvents : e.fee = toolResult.ctx.fee

(***************************************************************************)
(* C25  A fees_create for a conversation with email enabled, run with the  *)
(* connector available and every call succeeding, leaves in place when it  *)
(* returns: the fee row, a registered cron job, the fee_jobs row, a sent   *)
(* confirmation email and a fee_calendar_events row for the fee, all under *)
(* the tenant of the request.                                              *)
(***************************************************************************)
C25_CreateWithEmailLeavesAll ==
    [][\A x \in ToolContexts, f \in ConnectorFees, calId \in BOOLEAN :
          ( /\ isAvailable
            /\ fees_create(x[1], x[2], 1, f, "ok", "ok", "ok", TRUE, TRUE, TRUE, calId) )
          => /\ Fee(f, x[1], x[2], 1, TRUE) \in fees'
             /\ \E j \in cronJobs' : /\ j.name = JobName(x[2], f)
                                      /\ j.payload.tenantId = x[1]
             /\ FeeJobRow(x[1], f, JobName(x[2], f)) \in feeJobs'
             /\ "email_sent" \in toolResult'.says
             /\ \E e \in calendarEvents' : e.fee = f /\ e.tenant = x[1]
      ]_vars

(***************************************************************************)
(* C26  Concurrent requests share no mutable in-process state: the         *)
(* connector availability a request observed when it built its tools is    *)
(* still the availability of the connector for as long as the request is   *)
(* in flight, whatever the other request does to the MCPClientManager      *)
(* singleton (initialise, re-initialise, fail to initialise).              *)
(***************************************************************************)
C26_ObservedAvailabilityStable ==
    \A r \in Slots :
        (InFlight(r) /\ inflight[r].observed # "none")
            => ((inflight[r].observed = "yes") <=> isAvailable)

(***************************************************************************)
(* C27  Two concurrent requests of different tenants that use the same     *)
(* conversation id: the context each loaded, the prompt each selected, the *)
(* message rows each persisted and the reply each delivered involve only   *)
(* the request's own tenant, and a request in flight always has its next   *)
(* step enabled, whatever the position of the other request.               *)
(***************************************************************************)
OwnTenantOnly(r) ==
    LET slot == inflight[r]
    IN /\ \A m \in slot.context \cup slot.persisted :
             m.tenant_id = slot.tenant /\ m.chat_id = slot.chat
       /\ slot.prompt.tenant \in {slot.tenant, "none"}
       /\ slot.delivered.tenantId \in {slot.tenant, "none"}
       /\ slot.delivered.sources \subseteq {slot.tenant}

C27_ConcurrentTenantsIndependent ==
    \A r, o \in Slots :
        (/\ r # o
         /\ inflight[r].pc # "idle" /\ inflight[o].pc # "idle"
         /\ inflight[r].tenant # inflight[o].tenant
         /\ inflight[r].chat = inflight[o].chat)
            => /\ OwnTenantOnly(r)
               /\ InFlight(r) => ENABLED StepOf(r)

\* Both tenants have a prompt and messages stored under the shared conversation
\* id; T1's request has delivered its reply, generated from its stored prompt
\* and context, while T2's request is between its steps.
C27_Witness ==
    /\ inflight[1].tenant = T1 /\ inflight[2].tenant = T2
    /\ inflight[1].chat = inflight[2].chat
    /\ Prompt(T2, ChatShort) \in systemPrompts
    /\ Row("messages", T2, ChatShort) \in rows
    /\ inflight[1].pc = "done"
    /\ inflight[1].context # {}
    /\ inflight[1].prompt = Prompt(T1, ChatShort)
    /\ inflight[1].delivered.sources = {T1}
    /\ inflight[2].pc \in {"prompt", "tools", "generate", "persist"}
    /\ inflight[2].context # {}

(***************************************************************************)
(* C28  Triggers of different fees are independent: a fees_create or a     *)
(* fees_cancel for one fee leaves every timer registered for another fee,  *)
(* of the same tenant or of another, in the registry with its payload.     *)
(***************************************************************************)
C28_TimersOfOtherFeesUntouched ==
    [][toolResult'.tool \in {"fees_create", "fees_cancel"}
       => \A j \in cronJobs :
             j.payload.feeId # toolResult'.ctx.fee => j \in cronJobs']_vars

(***************************************************************************)
(* C29  fees_create is all-or-nothing with respect to the trigger: once it *)
(* has returned, with a success or with an error, the active fee it        *)
(* inserted has a registered timer and a fee_jobs row naming that timer,   *)
(* and every registered timer has its fee_jobs row.                        *)
(***************************************************************************)
C29_CreateAllOrNothing ==
    toolResult.tool = "fees_create"
    => /\ \A f \in fees :
             (f.id = toolResult.ctx.fee /\ f.is_active)
             => /\ \E j \in cronJobs : /\ j.name = JobName(f.chat, f.id)
                                       /\ j.payload.feeId = f.id
                /\ \E r \in feeJobs : /\ r.fee = f.id
                                      /\ r.name = JobName(f.chat, f.id)
       /\ \A j \in cronJobs : \E r \in feeJobs : r.name = j.name

(***************************************************************************)
(* C30  No timer stays registered for an inactive fee: once fees_cancel    *)
(* has returned, with a success or with an error, the fee is still active  *)
(* or no timer is registered for it; and a fees_cancel for the fee type    *)
(* and due day of an inactive fee whose timer is still registered, all of  *)
(* its calls succeeding, removes that timer.                               *)
(***************************************************************************)
C30_NoTimerForInactiveFee ==
    /\ [](toolResult.tool = "fees_cancel"
          => \A f \in fees :
                (f.id = toolResult.ctx.fee /\ ~f.is_active)
                => \A j \in cronJobs : j.payload.feeId # f.id)
    /\ [][\A x \in ToolContexts, f \in fees :
             (/\ f.tenant = x[1] /\ f.chat = x[2] /\ f.due_day = 1 /\ ~f.is_active
              /\ \E j \in cronJobs : j.payload.feeId = f.id
              /\ \E g \in AllFees \cup {NoFee} :
                    fees_cancel(x[1], x[2], 1, g, "ok", "ok", "ok", "ok"))
             => \A j \in cronJobs' : j.payload.feeId # f.id]_vars

(***************************************************************************)
(* C31  After fees_cancel(fee_type, due_day) returned success in a         *)
(* conversation, no fee of that conversation with that type and due day    *)
(* is active and no timer of such a fee is registered, also when several   *)
(* active fees of that type and day had been created there.                *)
(***************************************************************************)
C31_CancelLeavesNoActiveFee ==
    (/\ toolResult.tool = "fees_cancel"
     /\ toolResult.status = "ok"
     /\ "cancelled" \in toolResult.says)
    => \A f, g \in fees :
          (/\ f.id = toolResult.ctx.fee
           /\ g.tenant = f.tenant /\ g.chat = f.chat /\ g.due_day = f.due_day)
          => /\ ~g.is_active
             /\ \A j \in cronJobs : j.payload.feeId # g.id

(***************************************************************************)
(* C32  Domain tools are confined to their own conversation as well as     *)
(* their own tenant: a calendar tool created for one conversation that     *)
(* reported a mapping created or removed for the fee id it was given       *)
(* acted on a fee of its own conversation.                                 *)
(***************************************************************************)
C32_ToolsStayInConversation ==
    (/\ toolResult.tool \in {"calendar_create_event_for_fee",
                             "calendar_cancel_event_for_fee"}
     /\ toolResult.status = "ok"
     /\ "no_event" \notin toolResult.says)
    => \A f \in fees :
          f.id = toolResult.ctx.fee
          => (f.tenant = toolResult.ctx.tenant /\ f.chat = toolResult.ctx.chat)

(***************************************************************************)
(* C33  The two authority lanes are never mixed: the privileged lane is    *)
(* used only to register and to cancel timers; message persistence and     *)
(* every domain-tool statement go through the tenant-scoped sandboxed      *)
(* lane.                                                                   *)
(***************************************************************************)
C33_PrivilegedLaneOnlyForTimers ==
    \A call \in CallsMade :
        LaneOf(call) = "privileged" => call \in {"scheduleCron", "unscheduleCron"}

(***************************************************************************)
(* C34  The tenant the data store resolves for a request's statements      *)
(* equals the tenantId of the request payload, which the handler's client  *)
(* sends as x-tenant-id, whatever token the caller's Authorization header  *)
(* carries.                                                                *)
(***************************************************************************)
C34_ResolvedTenantIsPayloadTenant ==
    (lastResult.op # "none" /\ localGuc[XHeaderGuc] \in Tenants)
    => lastResult.resolved = localGuc[XHeaderGuc]

(***************************************************************************)
(* C35  After notifications_set_email_prefs was called with only an email  *)
(* address (email_enabled left out) and succeeded, the conversation has    *)
(* exactly one settings row, its email_enabled is true, and a              *)
(* notifications_send_email without a recipient is not refused as          *)
(* disabled.                                                               *)
(***************************************************************************)
C35_PrefsDefaultToEnabled ==
    [][\A x \in ToolContexts :
          notifications_set_email_prefs(x[1], x[2], "undefined", "ok")
          => /\ SettingsOf(x[1], x[2])' = {SettingsRow(x[1], x[2], "true")}
             /\ getChatEmailSettings(x[1], x[2])' = "enabled"]_vars

(***************************************************************************)
(* C36  While a conversation's settings have email_enabled = false, no     *)
(* tool sends an email to the address stored in them: a fees_create, a     *)
(* notifications_send_email without recipient and a docs_email_summary     *)
(* without recipient do not report an email sent.                          *)
(***************************************************************************)
C36_DisabledMeansNoEmail ==
    [][\A x \in ToolContexts :
          (/\ SettingsOf(x[1], x[2]) = {SettingsRow(x[1], x[2], "false")}
           /\ \/ \E a \in BOOLEAN :
                    notifications_send_email(x[1], x[2], FALSE,
                                             getChatEmailSettings(x[1], x[2]), a)
              \/ \E a \in BOOLEAN :
                    docs_email_summary(x[1], x[2], TRUE, FALSE,
                                       getChatEmailSettings(x[1], x[2]), a)
              \/ \E f \in ConnectorFees, ek \in BOOLEAN :
                    fees_create(x[1], x[2], 1, f, "ok", "ok", "ok",
                        EmailConfirmationOn(getChatEmailSettings(x[1], x[2])),
                        ek, FALSE, FALSE))
          => "email_sent" \notin toolResult'.says]_vars

(***************************************************************************)
(* C37  calendar_cancel_event_for_fee changes state only on success: when  *)
(* deleting the external event fails the stored mappings are unchanged and *)
(* an error is returned; when the call returns success no                  *)
(* fee_calendar_events row remains for that fee, also when a mapping had   *)
(* been created more than once for it.                                     *)
(***************************************************************************)
C37_CalendarCancelAllOrNothing ==
    /\ [][(/\ toolResult'.tool = "calendar_cancel_event_for_fee"
           /\ "delete_failed" \in toolResult'.says)
          => (toolResult'.status = "error" /\ calendarEvents' = calendarEvents)]_vars
    /\ []((/\ toolResult.tool = "calendar_cancel_event_for_fee"
           /\ toolResult.status = "ok"
           /\ "no_event" \notin toolResult.says)
          => \A e \in calendarEvents :
                ~(e.tenant = toolResult.ctx.tenant /\ e.fee = toolResult.ctx.fee))

(***************************************************************************)
(* C38  The connector manager's availability is consistent: it becomes     *)
(* available only by an initialize() that succeeded; after a failed        *)
(* initialize() and after shutdown() it is not available; and while it is  *)
(* not available sendEmail, createCalendarEvent and deleteCalendarEvent    *)
(* return success = false.                                                 *)
(***************************************************************************)
C38_AvailabilityConsistent ==
    [][/\ (mcpState # "available" /\ mcpState' = "available")
          => \E r \in Slots : initializeEnd(r, TRUE)
       /\ (\E r \in Slots : initializeEnd(r, FALSE)) => mcpState' # "available"
       /\ shutdown => mcpState' # "available"
       /\ (/\ mcpState # "available"
           /\ \E a \in BOOLEAN : sendEmail(a) \/ createCalendarEvent(a)
                                 \/ deleteCalendarEvent(a))
          => (toolResult'.status = "failure"
              /\ "contacted_connector" \notin toolResult'.says)]_vars

\* One request's initialize() succeeded while another's was pending; the pending
\* one then failed, and a sendEmail after it was refused.
C38_Witness ==
    /\ mcpState = "absent"
    /\ \A r \in Slots : inflight[r].pc \in {"prompt", "tools", "generate"}
    /\ \E r \in Slots : inflight[r].observed = "yes"
    /\ toolResult.tool = "sendEmail"
    /\ toolResult.status = "failure"
    /\ "mcp_not_available" \in toolResult.says

====
